---- MODULE Spec2Model ----
(***************************************************************************)
(* Complaint / case store of the crime-record application                  *)
(* (src/database.py, class Database) as a state machine.                   *)
(*                                                                         *)
(* The store is one SQLite file.  Every Database method opens its own      *)
(* connection (Database.connect), so the calls of different user sessions  *)
(* meet only in the database file.  SQLite gives the file one write lock:  *)
(* the first INSERT/UPDATE of a connection begins a transaction and takes  *)
(* the lock, the changes stay private to that connection until commit, and *)
(* closing a connection with uncommitted changes rolls them back.          *)
(*                                                                         *)
(* Further sections model the severity classifier, the triage queue, the   *)
(* advanced search and its paging, the law suggestions                     *)
(* (src/legal_database.py) and the evidence files (src/evidence_handler.py *)
(* and the complaint form of src/app.py), each with its own specification. *)
(***************************************************************************)
EXTENDS Integers, Sequences, FiniteSets, TLC

\* ----------------------------------------------------------------- bounds
\* Rows the three tables may hold together.
MaxRows == 4

\* ------------------------------------------------------------- vocabulary
\* The user sessions (Streamlit script threads) that call the store.
Sessions == {"s1", "s2"}

\* SQL NULL / Python None of an integer column or variable.
None == 0

\* SQL NULL of the text column Cases.pdf_path.
NoPath == "NULL"

\* The values the CHECK constraints allow for a status column.
StatusSet == {"Pending", "Under Investigation", "Resolved", "Closed"}

\* The Users table after init_db: the default officer, user_id 1.
Users == <<[badge_number |-> "KP001"]>>

\* Badges a caller passes: a registered one and the fallback of
\* current_user.get('badge_number', 'N/A').
Badges == {"KP001", "N/A"}

\* Notes a caller passes.
NotesSet == {"started"}

\* Report paths a caller passes to register_case.
PdfPaths == {"case.pdf"}

\* A complaint id no complaint will ever have.
UnknownId == MaxRows + 1

VARIABLES
    complaints,   \* table Complaints, committed rows; complaint_id = index
    cases,        \* table Cases, committed rows; case_id = index
    caseUpdates,  \* table CaseUpdates, committed rows; update_id = index
    lock,         \* session whose connection holds the write lock, or "free"
    txn,          \* the lock holder's uncommitted view of the three tables
    pc,           \* per session: position inside the running method
    frame,        \* per session: arguments and locals of the running method
    evidence,     \* table Evidence, committed rows, and its AUTOINCREMENT counter
    files,        \* the files in the evidence directory, by path
    ordering      \* the complaint ids as ORDER BY date_filed DESC puts them (searches)

vars == <<complaints, cases, caseUpdates, lock, txn, pc, frame, evidence, files, ordering>>

\* Table Evidence after init_db: no row, no evidence_id given out yet.
NoEvidence == [rows |-> {}, seq |-> 0]

\* The committed content of the database file.
Committed == [complaints |-> complaints, cases |-> cases, caseUpdates |-> caseUpdates]

\* Value of txn while no connection is inside a transaction.
NoTxn == [complaints |-> <<>>, cases |-> <<>>, caseUpdates |-> <<>>]

\* Locals of a session that is not inside a method.
IdleFrame == [op |-> "none", complaint_id |-> None, new_status |-> "Pending",
              officer_badge |-> "N/A", notes |-> "x", police_officer_id |-> None,
              pdf_path |-> NoPath, case |-> None, case_id |-> None]

\* The locals are gone when the method has returned or raised; the session
\* only remembers which method it ran.
Finished(f) == [IdleFrame EXCEPT !.op = f.op]

\* Number of rows of a database content.
Rows(db) == Len(db.complaints) + Len(db.cases) + Len(db.caseUpdates)

\* What the connection of session s reads: its own uncommitted changes when
\* it is inside a transaction, the committed rows otherwise.
View(s) == IF lock = s THEN txn ELSE Committed

\* Variant of CanWrite: the write lock is not honoured.
CanWrite_nolock(s) == TRUE

\* A write statement of session s can run: no other connection holds the
\* write lock (the statement begins a transaction when none is open).
CanWrite(s) == lock \in {"free", s}

\* ---------------------------------------------------------- SQL statements
\* SELECT * FROM Users WHERE badge_number = ? ; the caller keeps user_id.
get_user_by_badge(badge) ==
    IF \E u \in 1..Len(Users) : Users[u].badge_number = badge
    THEN CHOOSE u \in 1..Len(Users) : Users[u].badge_number = badge
    ELSE None

\* Variant of UpdateComplaintStatus: UPDATE Complaints SET status = ?,
\* severity_level = 'Low', severity_score = 1 WHERE complaint_id = ?
UpdateComplaintStatus_resetSeverity(db, cid, st) ==
    [db EXCEPT !.complaints =
        [i \in 1..Len(@) |-> IF i = cid
                             THEN [@[i] EXCEPT !.status = st, !.severity_level = "Low",
                                               !.severity_score = 1]
                             ELSE @[i]]]

\* UPDATE Complaints SET status = ? WHERE complaint_id = ?
UpdateComplaintStatus(db, cid, st) ==
    [db EXCEPT !.complaints =
        [i \in 1..Len(@) |-> IF i = cid THEN [@[i] EXCEPT !.status = st] ELSE @[i]]]

\* Variant of SelectCaseId: the lookup never finds the existing case.
SelectCaseId_none(db, cid) == None

\* SELECT case_id FROM Cases WHERE complaint_id = ? ; fetchone(): the first
\* matching row of the table scan, None when there is none.
SelectCaseId(db, cid) ==
    IF \E k \in 1..Len(db.cases) : db.cases[k].complaint_id = cid
    THEN CHOOSE k \in 1..Len(db.cases) :
            /\ db.cases[k].complaint_id = cid
            /\ \A j \in 1..(k-1) : db.cases[j].complaint_id # cid
    ELSE None

\* INSERT INTO Cases (complaint_id, police_officer_id, pdf_path, case_status)
\* No foreign key is enforced: connect() never turns PRAGMA foreign_keys on.
InsertCase(db, cid, officer, pdf, st) ==
    [db EXCEPT !.cases = Append(@, [complaint_id |-> cid, police_officer_id |-> officer,
                                    pdf_path |-> pdf, case_status |-> st])]

\* Variant of UpdateCase: UPDATE Cases SET case_status = ? WHERE case_id = ?,
\* the officer of the case is kept.
UpdateCase_keepOfficer(db, case_id, st, officer) ==
    [db EXCEPT !.cases =
        [k \in 1..Len(@) |-> IF k = case_id THEN [@[k] EXCEPT !.case_status = st] ELSE @[k]]]

\* UPDATE Cases SET case_status = ?, police_officer_id = ? WHERE case_id = ?
UpdateCase(db, case_id, st, officer) ==
    [db EXCEPT !.cases =
        [k \in 1..Len(@) |-> IF k = case_id
                             THEN [@[k] EXCEPT !.case_status = st, !.police_officer_id = officer]
                             ELSE @[k]]]

\* Variant of InsertCaseUpdate: a case keeps one audit row, which a later
\* status update overwrites.
InsertCaseUpdate_overwrite(db, case_id, badge, st, notes) ==
    IF \E i \in 1..Len(db.caseUpdates) : db.caseUpdates[i].case_id = case_id
    THEN [db EXCEPT !.caseUpdates =
            [i \in 1..Len(@) |-> IF @[i].case_id = case_id
                                 THEN [case_id |-> case_id, officer_badge |-> badge,
                                       status |-> st, notes |-> notes]
                                 ELSE @[i]]]
    ELSE [db EXCEPT !.caseUpdates = Append(@, [case_id |-> case_id, officer_badge |-> badge,
                                               status |-> st, notes |-> notes])]

\* Variant of InsertCaseUpdate: the audit row is written only for a case
\* that has none yet.
InsertCaseUpdate_oncePerCase(db, case_id, badge, st, notes) ==
    IF \E i \in 1..Len(db.caseUpdates) : db.caseUpdates[i].case_id = case_id
    THEN db
    ELSE [db EXCEPT !.caseUpdates = Append(@, [case_id |-> case_id, officer_badge |-> badge,
                                               status |-> st, notes |-> notes])]

\* INSERT INTO CaseUpdates (case_id, officer_badge, status, notes)
InsertCaseUpdate(db, case_id, badge, st, notes) ==
    [db EXCEPT !.caseUpdates = Append(@, [case_id |-> case_id, officer_badge |-> badge,
                                          status |-> st, notes |-> notes])]

\* ------------------------------------------------------------------- Init
\* The store after init_db: no complaint, no case, no update.
Init ==
    /\ complaints = <<>>
    /\ cases = <<>>
    /\ caseUpdates = <<>>
    /\ lock = "free"
    /\ txn = NoTxn
    /\ pc = [s \in Sessions |-> "idle"]
    /\ frame = [s \in Sessions |-> IdleFrame]
    /\ evidence = NoEvidence
    /\ files = {}
    /\ ordering = <<>>

\* --------------------------------------------------------------- helpers
\* conn.commit(): the transaction's rows become the committed rows.
Publish(db) ==
    /\ complaints' = db.complaints
    /\ cases' = db.cases
    /\ caseUpdates' = db.caseUpdates

\* conn.close() with uncommitted changes / release after commit.
Release ==
    /\ lock' = "free"
    /\ txn' = NoTxn

\* -------------------------------------------------------- submit_complaint
\* INSERT INTO Complaints (..., status) VALUES (..., 'Pending'); commit.
submit_complaint(s) ==
    /\ pc[s] = "idle"
    /\ lock = "free"
    /\ Rows(Committed) < MaxRows
    /\ complaints' = Append(complaints, [status |-> "Pending"])
    /\ UNCHANGED <<cases, caseUpdates, lock, txn, pc, frame>>
    /\ UNCHANGED <<evidence, files, ordering>>

\* ------------------------------------------------- update_complaint_status
\* Variant of UcsUpdateComplaint: the connection commits each statement at
\* once (autocommit), so the first UPDATE is persisted before the rest runs.
UcsUpdateComplaint_autocommit(s) ==
    /\ pc[s] = "idle"
    /\ lock = "free"
    /\ Rows(Committed) < MaxRows
    /\ \E cid \in (1..Len(complaints)) \cup {UnknownId}, st \in StatusSet,
          badge \in Badges, notes \in NotesSet :
          /\ frame' = [frame EXCEPT ![s] = [IdleFrame EXCEPT !.op = "update_complaint_status",
                            !.complaint_id = cid, !.new_status = st,
                            !.officer_badge = badge, !.notes = notes]]
          /\ complaints' = UpdateComplaintStatus(Committed, cid, st).complaints
    /\ pc' = [pc EXCEPT ![s] = "ucs_case"]
    /\ UNCHANGED <<cases, caseUpdates, lock, txn>>
    /\ UNCHANGED <<evidence, files, ordering>>

\* The call up to its first statement: the connection is opened and
\* c.execute("UPDATE Complaints SET status = ? WHERE complaint_id = ?") begins
\* the transaction.  A call that still waits for the write lock has done
\* nothing another session can see, so the call starts here.
UcsUpdateComplaint(s) ==
    /\ pc[s] = "idle"
    /\ CanWrite(s)
    /\ Rows(Committed) < MaxRows
    /\ \E cid \in (1..Len(complaints)) \cup {UnknownId}, st \in StatusSet,
          badge \in Badges, notes \in NotesSet :
          /\ frame' = [frame EXCEPT ![s] = [IdleFrame EXCEPT !.op = "update_complaint_status",
                            !.complaint_id = cid, !.new_status = st,
                            !.officer_badge = badge, !.notes = notes]]
          /\ txn' = UpdateComplaintStatus(View(s), cid, st)
    /\ lock' = s
    /\ pc' = [pc EXCEPT ![s] = "ucs_case"]
    /\ UNCHANGED <<complaints, cases, caseUpdates>>
    /\ UNCHANGED <<evidence, files, ordering>>

\* SELECT case_id ...; get_user_by_badge; then INSERT INTO Cases when there
\* is no case (case_id = lastrowid), UPDATE Cases otherwise.
UcsGetOrCreateCase(s) ==
    /\ pc[s] = "ucs_case"
    /\ CanWrite(s)
    /\ LET db == View(s)
           case == SelectCaseId(db, frame[s].complaint_id)
           officer_id == get_user_by_badge(frame[s].officer_badge)
       IN  IF case = None
           THEN /\ Rows(db) < MaxRows
                /\ txn' = InsertCase(db, frame[s].complaint_id, officer_id, NoPath,
                                     frame[s].new_status)
                /\ frame' = [frame EXCEPT ![s].police_officer_id = officer_id,
                                          ![s].case = None,
                                          ![s].case_id = Len(db.cases) + 1]
           ELSE /\ txn' = UpdateCase(db, case, frame[s].new_status, officer_id)
                /\ frame' = [frame EXCEPT ![s].police_officer_id = officer_id,
                                          ![s].case = case,
                                          ![s].case_id = case]
    /\ lock' = s
    /\ pc' = [pc EXCEPT ![s] = "ucs_caseupdate"]
    /\ UNCHANGED <<complaints, cases, caseUpdates>>
    /\ UNCHANGED <<evidence, files, ordering>>

\* c.execute("INSERT INTO CaseUpdates (case_id, officer_badge, status, notes)")
UcsInsertCaseUpdate(s) ==
    /\ pc[s] = "ucs_caseupdate"
    /\ CanWrite(s)
    /\ Rows(View(s)) < MaxRows
    /\ txn' = InsertCaseUpdate(View(s), frame[s].case_id, frame[s].officer_badge,
                               frame[s].new_status, frame[s].notes)
    /\ lock' = s
    /\ pc' = [pc EXCEPT ![s] = "ucs_commit"]
    /\ UNCHANGED <<complaints, cases, caseUpdates, frame>>
    /\ UNCHANGED <<evidence, files, ordering>>

\* conn.commit(); finally: conn.close(); the method returns.
UcsCommit(s) ==
    /\ pc[s] = "ucs_commit"
    /\ Publish(View(s))
    /\ Release
    /\ pc' = [pc EXCEPT ![s] = "returned"]
    /\ frame' = [frame EXCEPT ![s] = Finished(frame[s])]
    /\ UNCHANGED <<evidence, files, ordering>>

\* The first statement raises sqlite3.Error (database is locked after the
\* busy timeout of the connection, disk I/O error): except: raise Exception.
UcsBusy(s) ==
    /\ pc[s] = "idle"
    /\ pc' = [pc EXCEPT ![s] = "raised"]
    /\ frame' = [frame EXCEPT ![s] = [IdleFrame EXCEPT !.op = "update_complaint_status"]]
    /\ UNCHANGED <<complaints, cases, caseUpdates, lock, txn>>
    /\ UNCHANGED <<evidence, files, ordering>>

\* A later statement or the commit raises sqlite3.Error: the except clause
\* logs it and raises Exception.  The transaction is still open.
UcsFail(s) ==
    /\ pc[s] \in {"ucs_case", "ucs_caseupdate", "ucs_commit"}
    /\ pc' = [pc EXCEPT ![s] = "ucs_except"]
    /\ UNCHANGED <<complaints, cases, caseUpdates, lock, txn, frame>>
    /\ UNCHANGED <<evidence, files, ordering>>

\* finally: conn.close() on the way out of the failed call: SQLite rolls the
\* open transaction back and the exception reaches the caller.
UcsClose(s) ==
    /\ pc[s] = "ucs_except"
    /\ IF lock = s THEN Release ELSE UNCHANGED <<lock, txn>>
    /\ pc' = [pc EXCEPT ![s] = "raised"]
    /\ frame' = [frame EXCEPT ![s] = Finished(frame[s])]
    /\ UNCHANGED <<complaints, cases, caseUpdates>>
    /\ UNCHANGED <<evidence, files, ordering>>

\* ------------------------------------------------------------ register_case
\* The call up to its first statement: c.execute("INSERT INTO Cases
\* (complaint_id, police_officer_id, pdf_path, case_status)
\* VALUES (?,?,?,'Under Investigation')") begins the transaction.
RcInsertCase(s) ==
    /\ pc[s] = "idle"
    /\ CanWrite(s)
    /\ Rows(View(s)) < MaxRows
    /\ \E cid \in (1..Len(complaints)) \cup {UnknownId}, officer \in 1..Len(Users),
          pdf \in PdfPaths :
          /\ frame' = [frame EXCEPT ![s] = [IdleFrame EXCEPT !.op = "register_case",
                            !.complaint_id = cid, !.police_officer_id = officer,
                            !.pdf_path = pdf, !.case_id = Len(View(s).cases) + 1]]
          /\ txn' = InsertCase(View(s), cid, officer, pdf, "Under Investigation")
    /\ lock' = s
    /\ pc' = [pc EXCEPT ![s] = "rc_commit"]
    /\ UNCHANGED <<complaints, cases, caseUpdates>>
    /\ UNCHANGED <<evidence, files, ordering>>

\* conn.commit() of register_case, before mark_complaint_registered.
RcCommit(s) ==
    /\ pc[s] = "rc_commit"
    /\ Publish(View(s))
    /\ Release
    /\ pc' = [pc EXCEPT ![s] = "rc_mark"]
    /\ UNCHANGED frame
    /\ UNCHANGED <<evidence, files, ordering>>

\* self.mark_complaint_registered(complaint_id): a second connection runs
\* UPDATE Complaints SET status = 'Under Investigation' and commits; then
\* register_case closes its own connection and returns.
mark_complaint_registered(s) ==
    /\ pc[s] = "rc_mark"
    /\ lock = "free"
    /\ Publish(UpdateComplaintStatus(Committed, frame[s].complaint_id, "Under Investigation"))
    /\ pc' = [pc EXCEPT ![s] = "returned"]
    /\ frame' = [frame EXCEPT ![s] = Finished(frame[s])]
    /\ UNCHANGED <<lock, txn>>
    /\ UNCHANGED <<evidence, files, ordering>>

\* The INSERT raises sqlite3.Error before it took effect: nothing catches
\* it, register_case raises.
RcBusy(s) ==
    /\ pc[s] = "idle"
    /\ pc' = [pc EXCEPT ![s] = "raised"]
    /\ frame' = [frame EXCEPT ![s] = [IdleFrame EXCEPT !.op = "register_case"]]
    /\ UNCHANGED <<complaints, cases, caseUpdates, lock, txn>>
    /\ UNCHANGED <<evidence, files, ordering>>

\* The commit, or the UPDATE or commit inside mark_complaint_registered,
\* raises sqlite3.Error; nothing catches it, the connection is dropped and
\* its open transaction with it.
RcFail(s) ==
    /\ pc[s] \in {"rc_commit", "rc_mark"}
    /\ IF lock = s THEN Release ELSE UNCHANGED <<lock, txn>>
    /\ pc' = [pc EXCEPT ![s] = "raised"]
    /\ frame' = [frame EXCEPT ![s] = Finished(frame[s])]
    /\ UNCHANGED <<complaints, cases, caseUpdates>>
    /\ UNCHANGED <<evidence, files, ordering>>

\* ------------------------------------------------------------------ caller
\* The caller takes the result (or the exception) and the session is free
\* for its next request.
Return(s) ==
    /\ pc[s] \in {"returned", "raised"}
    /\ pc' = [pc EXCEPT ![s] = "idle"]
    /\ frame' = [frame EXCEPT ![s] = IdleFrame]
    /\ UNCHANGED <<complaints, cases, caseUpdates, lock, txn>>
    /\ UNCHANGED <<evidence, files, ordering>>

Next ==
    \E s \in Sessions :
        \/ submit_complaint(s)
        \/ UcsUpdateComplaint(s)
        \/ UcsGetOrCreateCase(s)
        \/ UcsInsertCaseUpdate(s)
        \/ UcsCommit(s)
        \/ UcsBusy(s)
        \/ UcsFail(s)
        \/ UcsClose(s)
        \/ RcInsertCase(s)
        \/ RcCommit(s)
        \/ mark_complaint_registered(s)
        \/ RcBusy(s)
        \/ RcFail(s)
        \/ Return(s)

Spec == Init /\ [][Next]_vars

\* ------------------------------------------- two concurrent status updates
\* One complaint has been submitted; each session then makes one call of
\* update_complaint_status and keeps its result.
InitConcurrent ==
    /\ complaints = <<[status |-> "Pending"]>>
    /\ cases = <<>>
    /\ caseUpdates = <<>>
    /\ lock = "free"
    /\ txn = NoTxn
    /\ pc = [s \in Sessions |-> "idle"]
    /\ frame = [s \in Sessions |-> IdleFrame]
    /\ evidence = NoEvidence
    /\ files = {}
    /\ ordering = <<>>

NextConcurrent ==
    \E s \in Sessions :
        \/ UcsUpdateComplaint(s)
        \/ UcsGetOrCreateCase(s)
        \/ UcsInsertCaseUpdate(s)
        \/ UcsCommit(s)
        \/ UcsBusy(s)
        \/ UcsFail(s)
        \/ UcsClose(s)

SpecConcurrent == InitConcurrent /\ [][NextConcurrent]_vars

\* ================================================================ claims
\* The transition graph of the specification: Pending -> Under
\* Investigation -> Resolved -> Closed, and Under Investigation -> Closed.
Edges == {<<"Pending", "Under Investigation">>, <<"Under Investigation", "Resolved">>,
          <<"Resolved", "Closed">>, <<"Under Investigation", "Closed">>}

\* b can be reached from a along one or more edges.
Reachable(a, b) ==
    \/ <<a, b>> \in Edges
    \/ \E m \in StatusSet : <<a, m>> \in Edges /\ <<m, b>> \in Edges
    \/ \E m, n \in StatusSet : <<a, m>> \in Edges /\ <<m, n>> \in Edges /\ <<n, b>> \in Edges

\* Session s takes a step of the method it is running.
Steps(s) == pc'[s] # pc[s]

\* Session s is inside update_complaint_status.
InUcs(s) == frame[s].op = "update_complaint_status" /\ pc[s] \notin {"returned", "raised"}

\* The complaint id session s was called with is in the store.
OnComplaint(s) == frame[s].complaint_id \in 1..Len(complaints)

\* The step with which update_complaint_status commits and returns.
UcsCommits(s) == pc[s] = "ucs_commit" /\ pc'[s] = "returned"

\* The step with which register_case finishes and returns.
RcReturns(s) == pc[s] = "rc_mark" /\ pc'[s] = "returned"

\* The user id a badge belongs to is o (None when no user has the badge).
BadgeOwner(badge, o) ==
    \/ o \in 1..Len(Users) /\ Users[o].badge_number = badge
    \/ o = None /\ \A u \in 1..Len(Users) : Users[u].badge_number # badge

\* The cases of complaint cid.
CasesOf(cid) == {k \in 1..Len(cases) : cases[k].complaint_id = cid}

\* C1: every change of a complaint's status follows an edge of the
\* transition graph; the status never moves backward.
C1_StatusFollowsGraph ==
    [][\A i \in 1..Len(complaints) :
          \/ complaints'[i].status = complaints[i].status
          \/ <<complaints[i].status, complaints'[i].status>> \in Edges]_vars

\* C2: a call of update_complaint_status whose new status differs from the
\* complaint's status and cannot be reached from it in the graph never
\* returns successfully and leaves the complaint's status as it was.
C2_InvalidTransitionRejected ==
    [][\A s \in Sessions :
          (Steps(s) /\ InUcs(s) /\ OnComplaint(s)
             /\ frame[s].new_status # complaints[frame[s].complaint_id].status
             /\ ~Reachable(complaints[frame[s].complaint_id].status, frame[s].new_status))
          => /\ pc'[s] # "returned"
             /\ complaints'[frame[s].complaint_id].status
                   = complaints[frame[s].complaint_id].status]_vars

\* C3: a call of update_complaint_status with a complaint id that is not in
\* the store never returns successfully and adds no Case row and no
\* CaseUpdate row.
C3_UnknownComplaintRejected ==
    [][\A s \in Sessions :
          (Steps(s) /\ InUcs(s) /\ ~OnComplaint(s))
          => /\ pc'[s] # "returned"
             /\ cases' = cases
             /\ caseUpdates' = caseUpdates]_vars

\* C4: the step with which update_complaint_status returns for a complaint
\* of the store leaves that complaint with the new status and appends
\* exactly one CaseUpdate row, which carries the new status, the badge and
\* the notes of the call and belongs to a Case of that complaint, whether
\* or not the complaint had a Case before.
C4_StatusSetAndOneCaseUpdate ==
    [][\A s \in Sessions :
          (UcsCommits(s) /\ OnComplaint(s))
          => /\ complaints'[frame[s].complaint_id].status = frame[s].new_status
             /\ Len(caseUpdates') = Len(caseUpdates) + 1
             /\ SubSeq(caseUpdates', 1, Len(caseUpdates)) = caseUpdates
             /\ LET u == caseUpdates'[Len(caseUpdates')]
                IN  /\ u.status = frame[s].new_status
                    /\ u.officer_badge = frame[s].officer_badge
                    /\ u.notes = frame[s].notes
                    /\ u.case_id \in 1..Len(cases')
                    /\ cases'[u.case_id].complaint_id = frame[s].complaint_id]_vars

\* C4 witness: a Case made by a status update carries two CaseUpdates: the
\* first call found no Case, the second found that one, and the complaint
\* has the status of the second.
C4_Witness ==
    /\ Len(cases) = 1
    /\ cases[1].pdf_path = NoPath
    /\ cases[1].complaint_id = 1
    /\ Len(caseUpdates) = 2
    /\ caseUpdates[1].case_id = 1
    /\ caseUpdates[2].case_id = 1
    /\ caseUpdates[1].status # caseUpdates[2].status
    /\ complaints[1].status = caseUpdates[2].status

\* C5 as amended: the step with which update_complaint_status returns for a
\* complaint without a Case adds exactly one Case, for that complaint, whose
\* police_officer_id is the user the badge belongs to, or NULL when no user
\* has the badge; for a complaint with a Case it adds none.
C5_CaseCreatedOnlyWhenMissing ==
    [][\A s \in Sessions :
          (UcsCommits(s) /\ OnComplaint(s))
          => IF CasesOf(frame[s].complaint_id) = {}
             THEN /\ Len(cases') = Len(cases) + 1
                  /\ SubSeq(cases', 1, Len(cases)) = cases
                  /\ cases'[Len(cases')].complaint_id = frame[s].complaint_id
                  /\ BadgeOwner(frame[s].officer_badge, cases'[Len(cases')].police_officer_id)
             ELSE Len(cases') = Len(cases)]_vars

\* C5 as written: the Case a status update creates always has the acting
\* officer, a user with the badge of the call, as its registering officer.
C5_RegistrantIsActingOfficer ==
    [][\A s \in Sessions :
          (UcsCommits(s) /\ OnComplaint(s) /\ CasesOf(frame[s].complaint_id) = {})
          => /\ Len(cases') = Len(cases) + 1
             /\ cases'[Len(cases')].complaint_id = frame[s].complaint_id
             /\ cases'[Len(cases')].police_officer_id \in 1..Len(Users)
             /\ Users[cases'[Len(cases')].police_officer_id].badge_number
                   = frame[s].officer_badge]_vars

\* C5 witness: a status update with a badge no user has created the Case of
\* complaint 1, and a second status update found it and created no other.
C5_Witness ==
    /\ Len(cases) = 1
    /\ cases[1].pdf_path = NoPath
    /\ cases[1].complaint_id \in 1..Len(complaints)
    /\ Len(caseUpdates) = 2
    /\ caseUpdates[1].officer_badge = "N/A"
    /\ caseUpdates[2].officer_badge = "KP001"
    /\ cases[1].police_officer_id = 1

\* C6: when register_case returns for a complaint of the store, the Case it
\* inserted is there, the complaint is Under Investigation and a CaseUpdate
\* of that Case records Under Investigation.
C6_RegisterCaseEmitsUpdate ==
    [][\A s \in Sessions :
          (RcReturns(s) /\ OnComplaint(s))
          => /\ frame[s].case_id \in 1..Len(cases')
             /\ cases'[frame[s].case_id].complaint_id = frame[s].complaint_id
             /\ complaints'[frame[s].complaint_id].status = "Under Investigation"
             /\ \E i \in 1..Len(caseUpdates') :
                   /\ caseUpdates'[i].case_id = frame[s].case_id
                   /\ caseUpdates'[i].status = "Under Investigation"]_vars

\* C7: in every reachable state each complaint has at most one Case.
C7_AtMostOneCasePerComplaint ==
    \A cid \in 1..Len(complaints) : Cardinality(CasesOf(cid)) <= 1

\* C8: update_complaint_status is all-or-nothing: no step of a call other
\* than its final commit changes the committed Complaints, Cases or
\* CaseUpdates, and a call that raises has given up its transaction, so
\* nothing of it can be committed later.
C8_UcsAllOrNothing ==
    [][\A s \in Sessions :
          (Steps(s) /\ (InUcs(s) \/ frame'[s].op = "update_complaint_status")
             /\ ~UcsCommits(s))
          => /\ UNCHANGED <<complaints, cases, caseUpdates>>
             /\ (pc'[s] = "raised" => lock' # s)]_vars

\* C8 witness: a call has failed after its three writes (its commit
\* raised): the writes exist in its transaction only, the committed tables
\* are those from before the call.
C8_Witness ==
    \E s \in Sessions :
        /\ pc[s] = "ucs_except"
        /\ lock = s
        /\ OnComplaint(s)
        /\ txn.complaints # complaints
        /\ Len(txn.cases) = Len(cases) + 1
        /\ Len(txn.caseUpdates) = Len(caseUpdates) + 1

\* C9: register_case is transactional: when no call is running and no
\* status update was ever committed, every complaint with a Case is Under
\* Investigation (the Case insert never persists without the status write).
C9_RegisterCaseTransactional ==
    (caseUpdates = <<>> /\ \A s \in Sessions : pc[s] \in {"idle", "returned", "raised"})
    => \A k \in 1..Len(cases) :
          cases[k].complaint_id \in 1..Len(complaints)
          => complaints[cases[k].complaint_id].status = "Under Investigation"

\* C10: two concurrent calls of update_complaint_status are serialized: the
\* committed CaseUpdates are one per call that has returned (a call that
\* raised left none), and when both calls were on complaint 1 and both have
\* returned the outcome is that of a serial run: one Case for the
\* complaint, two CaseUpdates of that Case, and the complaint and the Case
\* with the status (and the Case with the officer) of the later CaseUpdate.
C10_ConcurrentUpdatesSerialized ==
    /\ Len(caseUpdates) = Cardinality({s \in Sessions : pc[s] = "returned"})
    /\ ((\A s \in Sessions : pc[s] = "returned")
           /\ (\A k \in 1..Len(cases) : cases[k].complaint_id = 1))
       => /\ Len(cases) = 1
          /\ Len(caseUpdates) = 2
          /\ caseUpdates[1].case_id = 1
          /\ caseUpdates[2].case_id = 1
          /\ complaints[1].status = caseUpdates[2].status
          /\ cases[1].case_status = caseUpdates[2].status
          /\ BadgeOwner(caseUpdates[2].officer_badge, cases[1].police_officer_id)

\* C10 witness: both sessions have returned from their call on complaint 1,
\* the calls asked for different statuses and badges.
C10_Witness ==
    /\ \A s \in Sessions : pc[s] = "returned"
    /\ Len(caseUpdates) = 2
    /\ \A k \in 1..Len(cases) : cases[k].complaint_id = 1
    /\ caseUpdates[1].status = "Resolved"
    /\ caseUpdates[2].status = "Under Investigation"
    /\ caseUpdates[1].officer_badge # caseUpdates[2].officer_badge

\* ================================================================ strings
\* A text value (Python str, SQL TEXT) is the sequence of its characters.
UpperCase == <<"A", "B", "C", "D", "E", "F", "G", "H", "I", "J", "K", "L", "M",
               "N", "O", "P", "Q", "R", "S", "T", "U", "V", "W", "X", "Y", "Z">>

LowerCase == <<"a", "b", "c", "d", "e", "f", "g", "h", "i", "j", "k", "l", "m",
               "n", "o", "p", "q", "r", "s", "t", "u", "v", "w", "x", "y", "z">>

\* The lower-case letter of each upper-case letter.
LowerOf ==
    [c \in {UpperCase[i] : i \in 1..Len(UpperCase)} |->
        LowerCase[CHOOSE i \in 1..Len(UpperCase) : UpperCase[i] = c]]

\* One character folded to lower case (the ASCII letters).
LowerChar(c) == IF c \in DOMAIN LowerOf THEN LowerOf[c] ELSE c

\* str.lower()
lower(str) == [i \in 1..Len(str) |-> LowerChar(str[i])]

\* Python "keyword in text": keyword is a contiguous part of text.
In(keyword, text) ==
    \E i \in 0..(Len(text) - Len(keyword)) :
        SubSeq(text, i + 1, i + Len(keyword)) = keyword

\* ===================================================== severity classifier
\* classify_severity(title, description, category) of severity_classifier.
\* high_keywords of classify_severity.
high_keywords ==
    {<<"m", "u", "r", "d", "e", "r">>,
     <<"k", "i", "l", "l">>,
     <<"d", "e", "a", "t", "h">>,
     <<"r", "a", "p", "e">>,
     <<"a", "s", "s", "a", "u", "l", "t">>,
     <<"k", "i", "d", "n", "a", "p">>,
     <<"b", "o", "m", "b">>,
     <<"t", "e", "r", "r", "o", "r">>,
     <<"w", "e", "a", "p", "o", "n">>,
     <<"g", "u", "n">>,
     <<"k", "n", "i", "f", "e">>,
     <<"v", "i", "o", "l", "e", "n", "c", "e">>,
     <<"t", "h", "r", "e", "a", "t">>,
     <<"e", "m", "e", "r", "g", "e", "n", "c", "y">>,
     <<"u", "r", "g", "e", "n", "t">>,
     <<"s", "e", "r", "i", "o", "u", "s">>,
     <<"c", "r", "i", "t", "i", "c", "a", "l">>,
     <<"d", "a", "n", "g", "e", "r", "o", "u", "s">>,
     <<"l", "i", "f", "e">>,
     <<"i", "n", "j", "u", "r", "y">>,
     <<"b", "l", "o", "o", "d">>,
     <<"a", "t", "t", "a", "c", "k">>}

\* medium_keywords of classify_severity.
medium_keywords ==
    {<<"t", "h", "e", "f", "t">>,
     <<"r", "o", "b", "b", "e", "r", "y">>,
     <<"f", "r", "a", "u", "d">>,
     <<"c", "h", "e", "a", "t">>,
     <<"s", "c", "a", "m">>,
     <<"h", "a", "r", "a", "s", "s", "m", "e", "n", "t">>,
     <<"a", "b", "u", "s", "e">>,
     <<"d", "o", "m", "e", "s", "t", "i", "c">>,
     <<"c", "y", "b", "e", "r", "c", "r", "i", "m", "e">>,
     <<"b", "l", "a", "c", "k", "m", "a", "i", "l">>,
     <<"e", "x", "t", "o", "r", "t", "i", "o", "n">>,
     <<"v", "a", "n", "d", "a", "l", "i", "s", "m">>,
     <<"p", "r", "o", "p", "e", "r", "t", "y">>,
     <<"d", "a", "m", "a", "g", "e">>,
     <<"s", "t", "o", "l", "e", "n">>,
     <<"m", "i", "s", "s", "i", "n", "g">>,
     <<"l", "o", "s", "t">>}

\* low_keywords of classify_severity.
low_keywords ==
    {<<"n", "o", "i", "s", "e">>,
     <<"p", "a", "r", "k", "i", "n", "g">>,
     <<"d", "i", "s", "p", "u", "t", "e">>,
     <<"a", "r", "g", "u", "m", "e", "n", "t">>,
     <<"c", "o", "m", "p", "l", "a", "i", "n", "t">>,
     <<"m", "i", "n", "o", "r">>,
     <<"d", "i", "s", "t", "u", "r", "b", "a", "n", "c", "e">>,
     <<"n", "u", "i", "s", "a", "n", "c", "e">>,
     <<"p", "u", "b", "l", "i", "c">>,
     <<"t", "r", "a", "f", "f", "i", "c">>,
     <<"d", "o", "c", "u", "m", "e", "n", "t">>}

\* high_severity_categories of classify_severity.
high_severity_categories ==
    {<<"m", "u", "r", "d", "e", "r">>,
     <<"r", "a", "p", "e">>,
     <<"k", "i", "d", "n", "a", "p", "p", "i", "n", "g">>,
     <<"t", "e", "r", "r", "o", "r", "i", "s", "m">>,
     <<"a", "s", "s", "a", "u", "l", "t">>}

\* medium_severity_categories of classify_severity.
medium_severity_categories ==
    {<<"t", "h", "e", "f", "t">>,
     <<"f", "r", "a", "u", "d">>,
     <<"c", "y", "b", "e", "r", "c", "r", "i", "m", "e">>,
     <<"h", "a", "r", "a", "s", "s", "m", "e", "n", "t">>,
     <<"r", "o", "b", "b", "e", "r", "y">>}

\* low_severity_categories of classify_severity.
low_severity_categories ==
    {<<"t", "r", "a", "f", "f", "i", "c">>,
     <<"n", "o", "i", "s", "e">>,
     <<"p", "u", "b", "l", "i", "c", " ", "n", "u", "i", "s", "a", "n", "c", "e">>,
     <<"d", "o", "c", "u", "m", "e", "n", "t">>}

\* Crime categories a caller passes: members of the three category lists in
\* several spellings, one with a trailing blank, the empty one and others.
Categories ==
    {<<"T", "h", "e", "f", "t">>,
     <<"M", "U", "R", "D", "E", "R">>,
     <<"O", "t", "h", "e", "r">>,
     <<"N", "o", "i", "s", "e">>,
     <<"p", "u", "b", "l", "i", "c", " ", "n", "u", "i", "s", "a", "n", "c", "e">>,
     <<"T", "r", "a", "f", "f", "i", "c", " ">>,
     <<>>,
     <<"A", "s", "s", "a", "u", "l", "t">>}

\* Complaint titles a caller passes.
Titles ==
    {<<>>,
     <<"O", "t", "h", "e", "r">>,
     <<"B", "e", "g", "u", "n">>,
     <<"L", "o", "s", "t", " ", "d", "o", "g">>}

\* Complaint descriptions a caller passes: with keywords of one tier, of
\* several tiers, in upper case, inside a longer word, and with none.
Descriptions ==
    {<<"p", "h", "o", "n", "e", " ", "s", "t", "o", "l", "e", "n">>,
     <<"h", "e", " ", "t", "h", "r", "e", "a", "t", "e", "n", "e", "d", " ", "t", "o", " ", "k", "i", "l", "l", " ", "m", "e">>,
     <<"L", "o", "u", "d", " ", "N", "O", "I", "S", "E", " ", "a", "t", " ", "n", "i", "g", "h", "t">>,
     <<"n", "o", "t", "h", "i", "n", "g">>,
     <<>>,
     <<"m", "i", "n", "o", "r", " ", "t", "h", "e", "f", "t", " ", "w", "i", "t", "h", " ", "a", " ", "K", "N", "I", "F", "E">>,
     <<"w", "i", "l", "d", "l", "i", "f", "e">>,
     <<"p", "a", "r", "k", "i", "n", "g", " ", "d", "i", "s", "p", "u", "t", "e">>}

\* The value of frame.result before the call has returned.
NoResult == "none"

\* Variant of classify_severity: no default, a text without keyword gets no
\* tier.
classify_severity_nodefault(title, description, category) ==
    LET text == lower(title \o <<" ">> \o description)
        high_count == Cardinality({k \in high_keywords : In(k, text)})
        medium_count == Cardinality({k \in medium_keywords : In(k, text)})
        low_count == Cardinality({k \in low_keywords : In(k, text)})
    IN  IF lower(category) \in high_severity_categories THEN "high"
        ELSE IF lower(category) \in medium_severity_categories THEN "medium"
        ELSE IF lower(category) \in low_severity_categories THEN "low"
        ELSE IF high_count > 0 THEN "high"
        ELSE IF medium_count > 0 THEN "medium"
        ELSE IF low_count > 0 THEN "low"
        ELSE NoResult

\* Variant of classify_severity: the keywords are scanned before the
\* category is looked at.
classify_severity_keywordsFirst(title, description, category) ==
    LET text == lower(title \o <<" ">> \o description)
        high_count == Cardinality({k \in high_keywords : In(k, text)})
        medium_count == Cardinality({k \in medium_keywords : In(k, text)})
        low_count == Cardinality({k \in low_keywords : In(k, text)})
    IN  IF high_count > 0 THEN "high"
        ELSE IF medium_count > 0 THEN "medium"
        ELSE IF low_count > 0 THEN "low"
        ELSE IF lower(category) \in high_severity_categories THEN "high"
        ELSE IF lower(category) \in medium_severity_categories THEN "medium"
        ELSE IF lower(category) \in low_severity_categories THEN "low"
        ELSE "medium"

\* Variant of classify_severity: the keyword tiers are tested lowest first.
classify_severity_lowFirst(title, description, category) ==
    LET text == lower(title \o <<" ">> \o description)
        high_count == Cardinality({k \in high_keywords : In(k, text)})
        medium_count == Cardinality({k \in medium_keywords : In(k, text)})
        low_count == Cardinality({k \in low_keywords : In(k, text)})
    IN  IF lower(category) \in high_severity_categories THEN "high"
        ELSE IF lower(category) \in medium_severity_categories THEN "medium"
        ELSE IF lower(category) \in low_severity_categories THEN "low"
        ELSE IF low_count > 0 THEN "low"
        ELSE IF medium_count > 0 THEN "medium"
        ELSE IF high_count > 0 THEN "high"
        ELSE "medium"

\* text = f"{title} {description}".lower(); the category lists are tested
\* first, then the keyword counts, highest tier first; 'medium' by default.
classify_severity(title, description, category) ==
    LET text == lower(title \o <<" ">> \o description)
        high_count == Cardinality({k \in high_keywords : In(k, text)})
        medium_count == Cardinality({k \in medium_keywords : In(k, text)})
        low_count == Cardinality({k \in low_keywords : In(k, text)})
    IN  IF lower(category) \in high_severity_categories THEN "high"
        ELSE IF lower(category) \in medium_severity_categories THEN "medium"
        ELSE IF lower(category) \in low_severity_categories THEN "low"
        ELSE IF high_count > 0 THEN "high"
        ELSE IF medium_count > 0 THEN "medium"
        ELSE IF low_count > 0 THEN "low"
        ELSE "medium"

\* Each session is about to call classify_severity, both with the same
\* arguments; the store is not involved.
InitClassify ==
    /\ complaints = <<>>
    /\ cases = <<>>
    /\ caseUpdates = <<>>
    /\ lock = "free"
    /\ txn = NoTxn
    /\ pc = [s \in Sessions |-> "idle"]
    /\ \E t \in Titles, d \in Descriptions, c \in Categories :
          frame = [s \in Sessions |->
                      [op |-> "classify_severity", title |-> t, description |-> d,
                       category |-> c, result |-> NoResult]]
    /\ evidence = NoEvidence
    /\ files = {}
    /\ ordering = <<>>

\* severity_level = classify_severity(title, description, category)
CallClassify(s) ==
    /\ pc[s] = "idle"
    /\ pc' = [pc EXCEPT ![s] = "returned"]
    /\ frame' = [frame EXCEPT ![s].result =
                    classify_severity(frame[s].title, frame[s].description,
                                      frame[s].category)]
    /\ UNCHANGED <<complaints, cases, caseUpdates, lock, txn>>
    /\ UNCHANGED <<evidence, files, ordering>>

NextClassify == \E s \in Sessions : CallClassify(s)

SpecClassify == InitClassify /\ [][NextClassify]_vars

\* The three severity tiers, as classify_severity names them.
Tiers == {"low", "medium", "high"}

\* The text classify_severity scans, before case folding.
ScannedText(f) == f.title \o <<" ">> \o f.description

\* The text holds a keyword of the set, whatever the case of its letters.
HoldsKeyword(keywords, text) == \E k \in keywords : In(k, lower(text))

\* The category is in none of the three category lists.
Uncategorised(f) ==
    lower(f.category) \notin (high_severity_categories \cup medium_severity_categories
                                 \cup low_severity_categories)

C14_CategoryDecides ==
    \A s \in Sessions :
        pc[s] = "returned" =>
            /\ lower(frame[s].category) \in high_severity_categories
                  => frame[s].result = "high"
            /\ lower(frame[s].category) \in medium_severity_categories
                  => frame[s].result = "medium"
            /\ lower(frame[s].category) \in low_severity_categories
                  => frame[s].result = "low"

\* C14 witness: category Theft with a text that holds a high-tier keyword
\* has returned medium.
C14_Witness ==
    \E s \in Sessions :
        /\ pc[s] = "returned"
        /\ frame[s].category = <<"T", "h", "e", "f", "t">>
        /\ HoldsKeyword(high_keywords, ScannedText(frame[s]))
        /\ frame[s].result = "medium"

\* C15: when the category is in none of the lists, the result is high if
\* the text holds a high-tier keyword, else medium if it holds a
\* medium-tier keyword, else low if it holds a low-tier keyword, else
\* medium; so low is returned only with a low-tier keyword and no high- or
\* medium-tier keyword in the text.
C15_KeywordPriority ==
    \A s \in Sessions :
        (pc[s] = "returned" /\ Uncategorised(frame[s])) =>
            LET text == ScannedText(frame[s])
            IN  /\ frame[s].result =
                      IF HoldsKeyword(high_keywords, text) THEN "high"
                      ELSE IF HoldsKeyword(medium_keywords, text) THEN "medium"
                      ELSE IF HoldsKeyword(low_keywords, text) THEN "low"
                      ELSE "medium"
                /\ frame[s].result = "low"
                      => /\ HoldsKeyword(low_keywords, text)
                         /\ ~HoldsKeyword(high_keywords \cup medium_keywords, text)

\* C15 witness: a category of no list with a text that holds keywords of
\* the medium and the low tier and none of the high tier has returned
\* medium.
C15_Witness ==
    \E s \in Sessions :
        /\ pc[s] = "returned"
        /\ Uncategorised(frame[s])
        /\ HoldsKeyword(low_keywords, ScannedText(frame[s]))
        /\ HoldsKeyword(medium_keywords, ScannedText(frame[s]))
        /\ ~HoldsKeyword(high_keywords, ScannedText(frame[s]))
        /\ frame[s].result = "medium"

\* ======================================================= intake and triage
\* Bound: the seconds CURRENT_TIMESTAMP takes during a run are 1..MaxTime.
MaxTime == 2

\* str.title() of a tier name, as the complaint form applies it.
title(tier) ==
    CASE tier = "high" -> "High"
      [] tier = "medium" -> "Medium"
      [] tier = "low" -> "Low"

\* severity_score = {'low': 1, 'medium': 5, 'high': 10}[severity_level]
SeverityScore(tier) ==
    CASE tier = "high" -> 10
      [] tier = "medium" -> 5
      [] tier = "low" -> 1

\* What citizens enter into the complaint form: two complaints of one
\* citizen, one of another.
Forms ==
    {[citizen_name |-> <<"A", "s", "h", "a">>,
      citizen_email |-> <<"a", "s", "h", "a", "@", "x", ".", "i", "n">>,
      crime_type |-> <<"T", "h", "e", "f", "t">>,
      description |-> <<"p", "h", "o", "n", "e", " ", "s", "t", "o", "l", "e", "n">>,
      location |-> <<"M", "G", " ", "R", "o", "a", "d">>],
     [citizen_name |-> <<"A", "s", "h", "a">>,
      citizen_email |-> <<"a", "s", "h", "a", "@", "x", ".", "i", "n">>,
      crime_type |-> <<"O", "t", "h", "e", "r">>,
      description |-> <<"h", "e", " ", "t", "h", "r", "e", "a", "t", "e", "n", "e", "d", " ", "t", "o", " ", "k", "i", "l", "l", " ", "m", "e">>,
      location |-> <<"K", "o", "c", "h", "i">>],
     [citizen_name |-> <<"R", "a", "v", "i">>,
      citizen_email |-> <<"r", "a", "v", "i", "@", "x", ".", "i", "n">>,
      crime_type |-> <<"N", "o", "i", "s", "e">>,
      description |-> <<"l", "o", "u", "d", " ", "m", "u", "s", "i", "c">>,
      location |-> <<"M", "G", " ", "R", "o", "a", "d">>]}

\* Values of f"CR{datetime.now().strftime('%Y%m%d')}{str(uuid.uuid4())[:4].upper()}":
\* the day and four hexadecimal digits, which two submissions can share.
RefOrder ==
    <<<<"C", "R", "2", "0", "2", "5", "0", "9", "2", "3", "A", "1", "B", "2">>,
      <<"C", "R", "2", "0", "2", "5", "0", "9", "2", "3", "0", "F", "3", "C">>,
      <<"C", "R", "2", "0", "2", "5", "0", "9", "2", "4", "A", "1", "B", "2">>>>

RefNumbers == {RefOrder[i] : i \in 1..Len(RefOrder)}

\* complaint_data as the complaint form builds it: the entered fields,
\* severity_level = classify_severity(crime_type, description,
\* crime_type).title() and the severity_score of that tier.
ComplaintData ==
    {[citizen_name |-> f.citizen_name, citizen_email |-> f.citizen_email,
      crime_type |-> f.crime_type, description |-> f.description,
      location |-> f.location,
      severity_level |-> title(classify_severity(f.crime_type, f.description, f.crime_type)),
      severity_score |-> SeverityScore(classify_severity(f.crime_type, f.description,
                                                         f.crime_type))]
        : f \in Forms}

\* The row INSERT INTO Complaints (reference_number, ..., status) VALUES
\* (..., 'Pending') stores; date_filed takes its default CURRENT_TIMESTAMP,
\* user_id and assigned_officer_id their default NULL.
ComplaintRow(ref, data, now) ==
    [reference_number |-> ref, user_id |-> None, citizen_name |-> data.citizen_name,
     citizen_email |-> data.citizen_email, crime_type |-> data.crime_type,
     description |-> data.description, location |-> data.location,
     severity_level |-> data.severity_level, severity_score |-> data.severity_score,
     status |-> "Pending", date_filed |-> now, assigned_officer_id |-> None]

\* Values of CURRENT_TIMESTAMP when the next row is inserted: the clock has
\* not gone back behind the newest row.
Now(db) ==
    IF db.complaints = <<>> THEN {1}
    ELSE db.complaints[Len(db.complaints)].date_filed..MaxTime

\* Variant of UniqueViolation: the column has no UNIQUE constraint.
UniqueViolation_off(db, ref) == FALSE

\* reference_number TEXT UNIQUE: the INSERT fails when a row the connection
\* sees has the reference number.
UniqueViolation(db, ref) ==
    \E i \in 1..Len(db.complaints) : db.complaints[i].reference_number = ref

\* The session is about to call with these arguments / has this result.
CallFrame(op, arg) == [op |-> op, arg |-> arg, result |-> NoResult]

\* submit_complaint up to the INSERT: the reference number is generated, the
\* INSERT begins the transaction and adds the row.
SubmitInsert(s) ==
    /\ pc[s] = "idle"
    /\ CanWrite(s)
    /\ Rows(View(s)) < MaxRows
    /\ \E ref \in RefNumbers, data \in ComplaintData, now \in Now(View(s)) :
          /\ ~UniqueViolation(View(s), ref)
          /\ txn' = [View(s) EXCEPT !.complaints = Append(@, ComplaintRow(ref, data, now))]
          /\ frame' = [frame EXCEPT ![s] = CallFrame("submit_complaint", ref)]
    /\ lock' = s
    /\ pc' = [pc EXCEPT ![s] = "sub_commit"]
    /\ UNCHANGED <<complaints, cases, caseUpdates>>
    /\ UNCHANGED <<evidence, files, ordering>>

\* The INSERT raises sqlite3.IntegrityError for a reference number that is
\* taken: except: raise Exception; finally: conn.close().  Nothing is stored.
SubmitDuplicate(s) ==
    /\ pc[s] = "idle"
    /\ CanWrite(s)
    /\ \E ref \in RefNumbers :
          /\ UniqueViolation(View(s), ref)
          /\ frame' = [frame EXCEPT ![s] = CallFrame("submit_complaint", ref)]
    /\ pc' = [pc EXCEPT ![s] = "raised"]
    /\ UNCHANGED <<complaints, cases, caseUpdates, lock, txn>>
    /\ UNCHANGED <<evidence, files, ordering>>

\* conn.commit(); return reference_number; finally: conn.close().
SubmitCommit(s) ==
    /\ pc[s] = "sub_commit"
    /\ Publish(View(s))
    /\ Release
    /\ pc' = [pc EXCEPT ![s] = "returned"]
    /\ frame' = [frame EXCEPT ![s].result = frame[s].arg]
    /\ UNCHANGED <<evidence, files, ordering>>

\* The commit raises sqlite3.Error: except: raise Exception; finally:
\* conn.close() rolls the INSERT back.
SubmitFail(s) ==
    /\ pc[s] = "sub_commit"
    /\ Release
    /\ pc' = [pc EXCEPT ![s] = "raised"]
    /\ UNCHANGED <<complaints, cases, caseUpdates, frame>>
    /\ UNCHANGED <<evidence, files, ordering>>

\* Variant of SelectByReference: the lookup ignores the reference number.
SelectByReference_any(db, ref) ==
    IF db.complaints # <<>> THEN 1 ELSE None

\* SELECT c.* ... WHERE c.reference_number = ? ; fetchone(): the id of the
\* first matching row, None when there is none.
SelectByReference(db, ref) ==
    IF \E i \in 1..Len(db.complaints) : db.complaints[i].reference_number = ref
    THEN CHOOSE i \in 1..Len(db.complaints) :
            /\ db.complaints[i].reference_number = ref
            /\ \A j \in 1..(i-1) : db.complaints[j].reference_number # ref
    ELSE None

\* The result of get_complaint_by_reference for None.
NotFound == <<>>

\* get_complaint_by_reference(reference_number): dict(row) if row else None;
\* a found row is kept as the one-element list of its id and its columns.
get_complaint_by_reference(s) ==
    /\ pc[s] = "idle"
    /\ \E ref \in RefNumbers :
          LET i == SelectByReference(Committed, ref)
          IN  frame' = [frame EXCEPT ![s] =
                  [CallFrame("get_complaint_by_reference", ref) EXCEPT !.result =
                      IF i = None THEN NotFound
                      ELSE <<[complaint_id |-> i, row |-> complaints[i]]>>]]
    /\ pc' = [pc EXCEPT ![s] = "returned"]
    /\ UNCHANGED <<complaints, cases, caseUpdates, lock, txn>>
    /\ UNCHANGED <<evidence, files, ordering>>

\* CASE severity_level WHEN 'High' THEN 1 WHEN 'Medium' THEN 2 WHEN 'Low'
\* THEN 3 END
SeverityRank(level) ==
    CASE level = "High" -> 1
      [] level = "Medium" -> 2
      [] level = "Low" -> 3

\* Variant of TriageKeyLeq: date_filed DESC within a tier.
TriageKeyLeq_newestFirst(a, b) ==
    \/ SeverityRank(a.severity_level) < SeverityRank(b.severity_level)
    \/ /\ SeverityRank(a.severity_level) = SeverityRank(b.severity_level)
       /\ a.date_filed >= b.date_filed

\* ORDER BY CASE ... END, date_filed ASC: row a may come before row b.
TriageKeyLeq(a, b) ==
    \/ SeverityRank(a.severity_level) < SeverityRank(b.severity_level)
    \/ /\ SeverityRank(a.severity_level) = SeverityRank(b.severity_level)
       /\ a.date_filed <= b.date_filed

\* The lists in which a SELECT can return the rows ids: each id once.
Arrangements(ids) ==
    {seq \in [1..Cardinality(ids) -> ids] :
        \A a, b \in 1..Cardinality(ids) : a # b => seq[a] # seq[b]}

\* The orders the ORDER BY of get_pending_complaints allows for the rows
\* ids: those that respect the sort key (rows with equal keys come in any
\* order).
TriageOrders(db, ids) ==
    {seq \in Arrangements(ids) :
        \A a, b \in 1..Len(seq) :
            a < b => TriageKeyLeq(db.complaints[seq[a]], db.complaints[seq[b]])}

\* get_pending_complaints(): SELECT * FROM Complaints WHERE status =
\* 'Pending' ORDER BY ...; the result is kept as the list of complaint ids.
get_pending_complaints(s) ==
    /\ pc[s] = "idle"
    /\ \E rows \in TriageOrders(Committed,
                                {i \in 1..Len(complaints) : complaints[i].status = "Pending"}) :
          frame' = [frame EXCEPT ![s] =
                      [CallFrame("get_pending_complaints", None) EXCEPT !.result = rows]]
    /\ pc' = [pc EXCEPT ![s] = "returned"]
    /\ UNCHANGED <<complaints, cases, caseUpdates, lock, txn>>
    /\ UNCHANGED <<evidence, files, ordering>>

\* Citizens submit complaints, also at the same time.
NextIntake ==
    \E s \in Sessions :
        \/ SubmitInsert(s)
        \/ SubmitDuplicate(s)
        \/ SubmitCommit(s)
        \/ SubmitFail(s)
        \/ Return(s)

SpecIntake == Init /\ [][NextIntake]_vars

\* Complaints are submitted and looked up, officers change statuses and
\* read the pending queue; the calls are made one after the other.
NextTriage ==
    \E s \in Sessions :
        /\ \A t \in Sessions \ {s} : pc[t] = "idle"
        /\ \/ SubmitInsert(s)
           \/ SubmitCommit(s)
           \/ get_complaint_by_reference(s)
           \/ UcsUpdateComplaint(s)
           \/ UcsGetOrCreateCase(s)
           \/ UcsInsertCaseUpdate(s)
           \/ UcsCommit(s)
           \/ get_pending_complaints(s)
           \/ Return(s)

SpecTriage == Init /\ [][NextTriage]_vars

\* Session s returns from a call of op with this step.
Returns(s, op) == pc[s] # "returned" /\ pc'[s] = "returned" /\ frame'[s].op = op

\* C11: no two complaints share a reference number, in the committed table
\* and in the table an open transaction sees.
C11_ReferenceNumbersUnique ==
    /\ \A i, j \in 1..Len(complaints) :
          complaints[i].reference_number = complaints[j].reference_number => i = j
    /\ \A i, j \in 1..Len(txn.complaints) :
          txn.complaints[i].reference_number = txn.complaints[j].reference_number => i = j

\* C11 witness: two submissions drew the same reference number: one has
\* returned it and its complaint is stored, the other has raised, and a
\* further complaint is stored under another number.
C11_Witness ==
    \E s, t \in Sessions :
        /\ pc[s] = "returned" /\ frame[s].op = "submit_complaint"
        /\ pc[t] = "raised" /\ frame[t].op = "submit_complaint"
        /\ frame[t].arg = frame[s].result
        /\ Len(complaints) = 2
        /\ complaints[2].reference_number = frame[s].result

\* C12: the step with which submit_complaint returns appends one complaint
\* with status Pending whose reference number is the returned one and is
\* the number of no other complaint, and adds no Case and no CaseUpdate;
\* get_complaint_by_reference returns the stored complaint that has the
\* reference number asked for, and None exactly when no complaint has it.
C12_SubmitThenLookup ==
    [][\A s \in Sessions :
          /\ Returns(s, "submit_complaint")
                => /\ Len(complaints') = Len(complaints) + 1
                   /\ SubSeq(complaints', 1, Len(complaints)) = complaints
                   /\ complaints'[Len(complaints')].status = "Pending"
                   /\ complaints'[Len(complaints')].reference_number = frame'[s].result
                   /\ \A i \in 1..Len(complaints) :
                         complaints[i].reference_number # frame'[s].result
                   /\ cases' = cases
                   /\ caseUpdates' = caseUpdates
          /\ Returns(s, "get_complaint_by_reference")
                => IF \E i \in 1..Len(complaints) :
                         complaints[i].reference_number = frame'[s].arg
                   THEN /\ Len(frame'[s].result) = 1
                        /\ frame'[s].result[1].complaint_id \in 1..Len(complaints)
                        /\ complaints[frame'[s].result[1].complaint_id]
                              = frame'[s].result[1].row
                        /\ frame'[s].result[1].row.reference_number = frame'[s].arg
                   ELSE frame'[s].result = NotFound]_vars

\* C12 witness: with a Case in the store, the lookup of the reference
\* number of the second complaint has returned that complaint, still
\* Pending.
C12_Witness ==
    \E s \in Sessions :
        /\ pc[s] = "returned"
        /\ frame[s].op = "get_complaint_by_reference"
        /\ frame[s].result # NotFound
        /\ frame[s].result[1].complaint_id = 2
        /\ frame[s].result[1].row.status = "Pending"
        /\ cases # <<>>

\* C19: get_pending_complaints returns each complaint whose status is
\* Pending once and no other; no Medium or Low complaint comes before a
\* High one, no Low one before a Medium one, and of two complaints of one
\* tier the one filed earlier comes first.
C19_PendingQueueTriageOrder ==
    [][\A s \in Sessions :
          Returns(s, "get_pending_complaints")
             => LET rows == frame'[s].result
                IN  /\ {rows[a] : a \in 1..Len(rows)}
                          = {i \in 1..Len(complaints) : complaints[i].status = "Pending"}
                    /\ \A a, b \in 1..Len(rows) : a # b => rows[a] # rows[b]
                    /\ \A a, b \in 1..Len(rows) :
                          a < b =>
                             LET x == complaints[rows[a]]
                                 y == complaints[rows[b]]
                             IN  /\ y.severity_level = "High" => x.severity_level = "High"
                                 /\ y.severity_level = "Medium" => x.severity_level # "Low"
                                 /\ x.severity_level = y.severity_level
                                       => x.date_filed <= y.date_filed]_vars

\* C19 witness: the queue was read with two complaints of one tier filed at
\* different times in the store: the older is Pending and returned, the
\* newer has left Pending and is not.
C19_Witness ==
    \E s \in Sessions :
        /\ pc[s] = "returned"
        /\ frame[s].op = "get_pending_complaints"
        /\ Len(complaints) = 2
        /\ complaints[1].severity_level = complaints[2].severity_level
        /\ complaints[1].date_filed < complaints[2].date_filed
        /\ complaints[2].status = "Resolved"
        /\ frame[s].result = <<1>>

\* ========================================================= advanced search
\* Bound: the Complaints table holds at most MaxStore rows when searched.
MaxStore == 2

\* Seconds of the clock that make one calendar day.
TicksPerDay == 2

\* DATE(date_filed): the calendar day of a timestamp.
DateOf(t) == (t \div TicksPerDay) + 1

\* Statuses of the complaints in the searched store.
StoredStatuses == {"Pending", "Resolved"}

\* The Complaints tables that are searched: rows as submit_complaint stores
\* them, in the order they were filed, the n-th under the n-th reference
\* number, some moved on from Pending.
RECURSIVE Stores(_)
Stores(n) ==
    IF n = 0 THEN {<<>>}
    ELSE LET shorter == Stores(n - 1)
         IN  shorter \cup
             {Append(rows, [ComplaintRow(RefOrder[n], data, now) EXCEPT !.status = st]) :
                 rows \in {r \in shorter : Len(r) = n - 1},
                 data \in ComplaintData,
                 now \in 1..MaxTime, st \in StoredStatuses}

\* The table is one a run of the store can produce.
StoreOK(rows) ==
    /\ \A i \in 1..Len(rows) : i > 1 => rows[i - 1].date_filed <= rows[i].date_filed
    /\ rows # <<>> => rows[1].date_filed = 1

\* The Users table after two citizens have registered (create_user).
RegisteredUsers ==
    <<[role |-> "police", email |-> <<"o", "f", "f", "i", "c", "e", "r", "@", "k", "e", "r", "a", "l", "a", ".", "p", "o", "l", "i", "c", "e", ".", "g", "o", "v", ".", "i", "n">>],
      [role |-> "citizen", email |-> <<"a", "s", "h", "a", "@", "x", ".", "i", "n">>],
      [role |-> "citizen", email |-> <<"r", "a", "v", "i", "@", "x", ".", "i", "n">>]>>

\* A user id no user has.
UnknownUser == Len(RegisteredUsers) + 1

\* get_user_by_id: SELECT * FROM Users WHERE user_id = ? ; None for no row.
get_user_by_id(user_id) ==
    IF user_id \in 1..Len(RegisteredUsers) THEN user_id ELSE None

\* A text argument that is '' (or None): Python takes it as false.
Empty == <<>>

\* The word 'All' of the select boxes, as a text.
All == <<"A", "l", "l">>

\* Free-text queries a caller passes: none, a word in another case than
\* the stored one, and a text with the character _.
SearchQueries == {Empty, <<"r", "o", "a", "d">>, <<"a", "_", "h">>}

\* Location filters a caller passes.
LocationFilters == {Empty, <<"m", "g">>}

\* Severity filters: the select box's 'All' or a level.
SeverityFilters == {"All", "High"}

\* Status filters: the parameter's default '' or a status.
StatusFilters == {"", "Pending"}

\* Crime type filters: the select box's 'All' or a type.
CrimeTypeFilters == {All, <<"T", "h", "e", "f", "t">>}

\* Citizen emails a caller passes: none or a citizen's.
EmailFilters == {Empty, <<"a", "s", "h", "a", "@", "x", ".", "i", "n">>}

\* start_date / end_date a caller passes: None or a day.
StartDates == {None, 2}

EndDates == {None, 1}

\* The options of "Results per page".
ResultsPerPage == {10, 20}

\* SQLite's LIKE, for the text from position i on and the pattern from
\* position j on: % stands for any text, _ for any one character, letters
\* match whatever their case.
RECURSIVE LikeFrom(_, _, _, _)
LikeFrom(text, pattern, i, j) ==
    IF j > Len(pattern) THEN i > Len(text)
    ELSE IF pattern[j] = "%"
         THEN \/ LikeFrom(text, pattern, i, j + 1)
              \/ i <= Len(text) /\ LikeFrom(text, pattern, i + 1, j)
    ELSE IF i > Len(text) THEN FALSE
    ELSE IF pattern[j] = "_" THEN LikeFrom(text, pattern, i + 1, j + 1)
    ELSE /\ LowerChar(text[i]) = LowerChar(pattern[j])
         /\ LikeFrom(text, pattern, i + 1, j + 1)

\* f'%{value}%'
Wrapped(value) == <<"%">> \o value \o <<"%">>

\* LIKE for the texts the searched columns hold and the patterns the
\* filters give, as an explicit table.
LikeMemo ==
    [tp \in (RefNumbers \cup UNION {{d.citizen_name, d.crime_type, d.location,
                                      d.description} : d \in Forms})
              \X {Wrapped(v) : v \in SearchQueries \cup LocationFilters}
        |-> LikeFrom(tp[1], tp[2], 1, 1)] @@ <<>>

\* text LIKE pattern
Like(text, pattern) ==
    IF <<text, pattern>> \in DOMAIN LikeMemo
    THEN LikeMemo[<<text, pattern>>]
    ELSE LikeFrom(text, pattern, 1, 1)

\* The WHERE clause search_complaints_advanced builds: one clause for each
\* argument that is true (and is not 'All'), joined with AND.
SearchWhere(row, f) ==
    /\ f.search_query # Empty
          => \/ Like(row.reference_number, Wrapped(f.search_query))
             \/ Like(row.crime_type, Wrapped(f.search_query))
             \/ Like(row.location, Wrapped(f.search_query))
             \/ Like(row.description, Wrapped(f.search_query))
             \/ Like(row.citizen_name, Wrapped(f.search_query))
    /\ (f.severity_filter # "" /\ f.severity_filter # "All")
          => row.severity_level = f.severity_filter
    /\ f.location_filter # Empty => Like(row.location, Wrapped(f.location_filter))
    /\ f.start_date # None => DateOf(row.date_filed) >= f.start_date
    /\ f.end_date # None => DateOf(row.date_filed) <= f.end_date
    /\ (f.status_filter # "" /\ f.status_filter # "All") => row.status = f.status_filter
    /\ (f.crime_type_filter # Empty /\ f.crime_type_filter # All)
          => row.crime_type = f.crime_type_filter
    /\ f.citizen_email # Empty => row.citizen_email = f.citizen_email

\* Variant of CountWhere: the citizen email clause is left out.
CountWhere_noEmail(row, f) ==
    /\ f.search_query # Empty
          => \/ Like(row.reference_number, Wrapped(f.search_query))
             \/ Like(row.crime_type, Wrapped(f.search_query))
             \/ Like(row.location, Wrapped(f.search_query))
             \/ Like(row.description, Wrapped(f.search_query))
             \/ Like(row.citizen_name, Wrapped(f.search_query))
    /\ (f.severity_filter # "" /\ f.severity_filter # "All")
          => row.severity_level = f.severity_filter
    /\ f.location_filter # Empty => Like(row.location, Wrapped(f.location_filter))
    /\ f.start_date # None => DateOf(row.date_filed) >= f.start_date
    /\ f.end_date # None => DateOf(row.date_filed) <= f.end_date
    /\ (f.status_filter # "" /\ f.status_filter # "All") => row.status = f.status_filter
    /\ (f.crime_type_filter # Empty /\ f.crime_type_filter # All)
          => row.crime_type = f.crime_type_filter

\* The WHERE clause count_complaints_advanced builds.
CountWhere(row, f) ==
    /\ f.search_query # Empty
          => \/ Like(row.reference_number, Wrapped(f.search_query))
             \/ Like(row.crime_type, Wrapped(f.search_query))
             \/ Like(row.location, Wrapped(f.search_query))
             \/ Like(row.description, Wrapped(f.search_query))
             \/ Like(row.citizen_name, Wrapped(f.search_query))
    /\ (f.severity_filter # "" /\ f.severity_filter # "All")
          => row.severity_level = f.severity_filter
    /\ f.location_filter # Empty => Like(row.location, Wrapped(f.location_filter))
    /\ f.start_date # None => DateOf(row.date_filed) >= f.start_date
    /\ f.end_date # None => DateOf(row.date_filed) <= f.end_date
    /\ (f.status_filter # "" /\ f.status_filter # "All") => row.status = f.status_filter
    /\ (f.crime_type_filter # Empty /\ f.crime_type_filter # All)
          => row.crime_type = f.crime_type_filter
    /\ f.citizen_email # Empty => row.citizen_email = f.citizen_email

\* FROM Complaints c LEFT JOIN Users u ON c.assigned_officer_id = u.user_id:
\* the number of result rows one complaint gives (user_id is the primary
\* key of Users; a complaint without officer is joined with NULLs).
JoinedRows(row) ==
    IF \E u \in 1..Len(RegisteredUsers) : u = row.assigned_officer_id
    THEN Cardinality({u \in 1..Len(RegisteredUsers) : u = row.assigned_officer_id})
    ELSE 1

\* Variant of SearchKeyLeq: ORDER BY date_filed ASC.
SearchKeyLeq_ascending(a, b) == a.date_filed <= b.date_filed

\* ORDER BY date_filed DESC: row a may come before row b.
SearchKeyLeq(a, b) == a.date_filed >= b.date_filed

\* The orders ORDER BY date_filed DESC allows for the rows ids.
SearchOrders(db, ids) ==
    {seq \in Arrangements(ids) :
        \A a, b \in 1..Len(seq) :
            a < b => SearchKeyLeq(db.complaints[seq[a]], db.complaints[seq[b]])}

\* Variant of Page: the OFFSET clause is never added.
Page_noOffset(rows, limit, offset) ==
    IF limit = None THEN rows
    ELSE SubSeq(rows, 1, IF limit < Len(rows) THEN limit ELSE Len(rows))

\* LIMIT ? OFFSET ? when limit is true, OFFSET only when offset is true too.
Page(rows, limit, offset) ==
    IF limit = None THEN rows
    ELSE LET skip == IF offset = None THEN 0 ELSE offset
             last == IF skip + limit < Len(rows) THEN skip + limit ELSE Len(rows)
         IN  SubSeq(rows, skip + 1, last)

\* Locals of a search request: who asks, the filters, and the two results.
SearchFrame(op, caller, user_role, user_id, filters) ==
    [op |-> op, caller |-> caller, user_role |-> user_role, user_id |-> user_id,
     filters |-> filters, results |-> <<>>, total_results |-> 0]

\* The store holds some complaints; no call is running.
InitSearch ==
    /\ complaints \in {rows \in Stores(MaxStore) : StoreOK(rows)}
    /\ cases = <<>>
    /\ caseUpdates = <<>>
    /\ lock = "free"
    /\ txn = NoTxn
    /\ pc = [s \in Sessions |-> "idle"]
    /\ frame = [s \in Sessions |-> IdleFrame]
    /\ evidence = NoEvidence
    /\ files = {}
    /\ ordering \in SearchOrders(Committed, 1..Len(complaints))

\* The ids of the list order, from position a on, whose rows pass the WHERE
\* clause.
RECURSIVE SearchSelected(_, _, _, _)
SearchSelected(db, f, order, a) ==
    IF a > Len(order) THEN <<>>
    ELSE IF SearchWhere(db.complaints[order[a]], f) /\ JoinedRows(db.complaints[order[a]]) = 1
         THEN <<order[a]>> \o SearchSelected(db, f, order, a + 1)
         ELSE SearchSelected(db, f, order, a + 1)

\* The lists search_complaints_advanced can return: the rows that pass the
\* WHERE clause, in the order ORDER BY date_filed DESC gives the table (rows
\* filed in the same second come as the engine has them, in every statement
\* alike), cut to the page; kept as complaint ids.
SearchResults(db, f) ==
    {Page(SearchSelected(db, f, ordering, 1), f.limit, f.offset)}

\* search_complaints_advanced called without limit, with any of the other
\* arguments; the caller will count with the same arguments.
search_complaints_advanced(s) ==
    /\ pc[s] = "idle"
    /\ \E q \in SearchQueries, sev \in SeverityFilters, loc \in LocationFilters,
          d1 \in StartDates, d2 \in EndDates, st \in StatusFilters,
          ct \in CrimeTypeFilters, em \in EmailFilters :
          LET filters == [search_query |-> q, severity_filter |-> sev,
                          location_filter |-> loc, start_date |-> d1, end_date |-> d2,
                          status_filter |-> st, crime_type_filter |-> ct,
                          citizen_email |-> em, limit |-> None, offset |-> None]
          IN  \E rows \in SearchResults(Committed, filters) :
                 frame' = [frame EXCEPT ![s] =
                    [SearchFrame("search_complaints_advanced", None, "none", None, filters)
                        EXCEPT !.results = rows]]
    /\ pc' = [pc EXCEPT ![s] = "count"]
    /\ UNCHANGED <<complaints, cases, caseUpdates, lock, txn>>
    /\ UNCHANGED <<evidence, files, ordering>>

\* display_advanced_complaint_search(user_role, user_id) after the Search
\* button, up to its search: the filters are built from the widgets (the
\* date range at its default, which covers every complaint; the first
\* page); for a citizen with a user_id the user's email is added, and
\* nothing is searched or counted when that user is unknown.
display_advanced_complaint_search(s) ==
    /\ pc[s] = "idle"
    /\ \E caller \in 1..Len(RegisteredUsers), q \in SearchQueries, st \in StatusFilters,
          results_per_page \in ResultsPerPage :
       \E user_id \in {None, caller, UnknownUser} :
          LET user_role == RegisteredUsers[caller].role
              filters == [search_query |-> q, severity_filter |-> "All",
                          location_filter |-> Empty,
                          start_date |-> DateOf(1), end_date |-> DateOf(MaxTime),
                          status_filter |-> st, crime_type_filter |-> All,
                          citizen_email |-> Empty,
                          limit |-> results_per_page, offset |-> None]
              user_data == get_user_by_id(user_id)
              own == [filters EXCEPT !.citizen_email = RegisteredUsers[user_data].email]
              fr(f) == SearchFrame("display_advanced_complaint_search", caller,
                                   user_role, user_id, f)
          IN  IF user_role = "citizen" /\ user_id # None
              THEN IF user_data # None
                   THEN /\ \E rows \in SearchResults(Committed, own) :
                              frame' = [frame EXCEPT ![s] =
                                           [fr(own) EXCEPT !.results = rows]]
                        /\ pc' = [pc EXCEPT ![s] = "count"]
                   ELSE /\ frame' = [frame EXCEPT ![s] = fr(filters)]
                        /\ pc' = [pc EXCEPT ![s] = "returned"]
              ELSE /\ \E rows \in SearchResults(Committed, filters) :
                         frame' = [frame EXCEPT ![s] =
                                      [fr(filters) EXCEPT !.results = rows]]
                   /\ pc' = [pc EXCEPT ![s] = "count"]
    /\ UNCHANGED <<complaints, cases, caseUpdates, lock, txn>>
    /\ UNCHANGED <<evidence, files, ordering>>

\* total_results = db.count_complaints_advanced(**count_filters), the
\* filters without limit and offset: SELECT COUNT(*) FROM Complaints WHERE.
count_complaints_advanced(s) ==
    /\ pc[s] = "count"
    /\ frame' = [frame EXCEPT ![s].total_results =
                    Cardinality({i \in 1..Len(complaints) :
                                    CountWhere(complaints[i], frame[s].filters)})]
    /\ pc' = [pc EXCEPT ![s] = "returned"]
    /\ UNCHANGED <<complaints, cases, caseUpdates, lock, txn>>
    /\ UNCHANGED <<evidence, files, ordering>>

\* The session that makes the search requests: the store does not change
\* meanwhile, so the requests of other sessions would be no different.
Searcher == CHOOSE s \in Sessions : TRUE

NextSearch ==
    \/ search_complaints_advanced(Searcher)
    \/ display_advanced_complaint_search(Searcher)
    \/ count_complaints_advanced(Searcher)
    \/ Return(Searcher)

SpecSearch == InitSearch /\ [][NextSearch]_vars

\* Session s has the result list of a search of the kind op.
Searched(s, op) == frame[s].op = op /\ pc[s] \in {"count", "returned"}

\* The complaints in a result list.
ResultSet(s) == {frame[s].results[a] : a \in 1..Len(frame[s].results)}

\* value is a part of text, whatever the case of the letters.
Contains(text, value) == In(lower(value), lower(text))

\* The row satisfies every filter that is supplied.
Satisfies(row, f) ==
    /\ f.search_query # Empty
          => \/ Contains(row.reference_number, f.search_query)
             \/ Contains(row.crime_type, f.search_query)
             \/ Contains(row.location, f.search_query)
             \/ Contains(row.description, f.search_query)
             \/ Contains(row.citizen_name, f.search_query)
    /\ f.severity_filter \notin {"", "All"} => row.severity_level = f.severity_filter
    /\ f.location_filter # Empty => Contains(row.location, f.location_filter)
    /\ f.start_date # None => DateOf(row.date_filed) >= f.start_date
    /\ f.end_date # None => DateOf(row.date_filed) <= f.end_date
    /\ f.status_filter \notin {"", "All"} => row.status = f.status_filter
    /\ f.crime_type_filter \notin {Empty, All} => row.crime_type = f.crime_type_filter
    /\ f.citizen_email # Empty => row.citizen_email = f.citizen_email

\* C16: the count of count_complaints_advanced equals the number of rows
\* search_complaints_advanced returned for the same filters without limit.
C16_CountEqualsSearchLength ==
    \A s \in Sessions :
        (pc[s] = "returned" /\ frame[s].op = "search_complaints_advanced"
            /\ frame[s].filters.limit = None)
        => frame[s].total_results = Len(frame[s].results)

\* C16 witness: with two complaints of different citizens in the store, a
\* search by citizen email and its count have both given one.
C16_Witness ==
    \E s \in Sessions :
        /\ pc[s] = "returned"
        /\ frame[s].op = "search_complaints_advanced"
        /\ frame[s].filters.citizen_email # Empty
        /\ Len(complaints) = 2
        /\ complaints[1].citizen_email # complaints[2].citizen_email
        /\ Len(frame[s].results) = 1
        /\ frame[s].total_results = 1

\* C17: a search without limit returns each complaint that satisfies every
\* supplied filter once, and no other complaint: severity, status, crime
\* type and citizen email by equality, location by substring, filing day
\* within the range, the free text as a substring of one of the five
\* fields.
C17_SearchReturnsExactlyMatches ==
    \A s \in Sessions :
        (Searched(s, "search_complaints_advanced") /\ frame[s].filters.limit = None)
        => /\ ResultSet(s) = {i \in 1..Len(complaints) :
                                  Satisfies(complaints[i], frame[s].filters)}
           /\ Len(frame[s].results) = Cardinality(ResultSet(s))

\* C18: every result list of the advanced search is ordered by filing
\* timestamp, newest first.
C18_SearchNewestFirst ==
    \A s \in Sessions :
        (Searched(s, "search_complaints_advanced")
            \/ Searched(s, "display_advanced_complaint_search"))
        => \A a, b \in 1..Len(frame[s].results) :
              a < b => complaints[frame[s].results[a]].date_filed
                          >= complaints[frame[s].results[b]].date_filed

\* C18 witness: a search has returned two complaints filed at different
\* times.
C18_Witness ==
    \E s \in Sessions :
        /\ Searched(s, "search_complaints_advanced")
        /\ Len(frame[s].results) = 2
        /\ complaints[frame[s].results[1]].date_filed
              # complaints[frame[s].results[2]].date_filed

\* C20: when the search page runs for a citizen, every complaint it lists
\* carries that citizen's email, and it counts no more complaints than the
\* citizen has, whatever user_id the page was given.
C20_CitizenSearchScoped ==
    \A s \in Sessions :
        (Searched(s, "display_advanced_complaint_search")
            /\ frame[s].user_role = "citizen")
        => LET own == {i \in 1..Len(complaints) :
                          complaints[i].citizen_email = RegisteredUsers[frame[s].caller].email}
           IN  /\ ResultSet(s) \subseteq own
               /\ frame[s].total_results <= Cardinality(own)

\* ================================================================= paging
\* limit arguments a caller passes: the default None, or a page size.
PageLimits == {None, 1, 2}

\* offset arguments a caller passes: the default None, or
\* (current_page - 1) * results_per_page and the offsets between.
PageOffsets == {None, 0, 1, 2}

\* The store holds some complaints, all of them Pending, and the engine has
\* its order for them; no call is running.
InitPaging ==
    /\ complaints \in {rows \in Stores(MaxStore) :
                          /\ StoreOK(rows)
                          /\ \A i \in 1..Len(rows) : rows[i].status = "Pending"}
    /\ cases = <<>>
    /\ caseUpdates = <<>>
    /\ lock = "free"
    /\ txn = NoTxn
    /\ pc = [s \in Sessions |-> "idle"]
    /\ frame = [s \in Sessions |-> IdleFrame]
    /\ evidence = NoEvidence
    /\ files = {}
    /\ ordering \in SearchOrders(Committed, 1..Len(complaints))

\* search_complaints_advanced called with limit and offset and a location
\* filter, the other arguments at their defaults; the caller will count
\* with the same filters.
search_complaints_advanced_page(s) ==
    /\ pc[s] = "idle"
    /\ \E loc \in LocationFilters, limit \in PageLimits, offset \in PageOffsets :
          LET filters == [search_query |-> Empty, severity_filter |-> "",
                          location_filter |-> loc, start_date |-> None, end_date |-> None,
                          status_filter |-> "", crime_type_filter |-> Empty,
                          citizen_email |-> Empty, limit |-> limit, offset |-> offset]
          IN  \E rows \in SearchResults(Committed, filters) :
                 frame' = [frame EXCEPT ![s] =
                    [SearchFrame("search_complaints_advanced", None, "none", None, filters)
                        EXCEPT !.results = rows]]
    /\ pc' = [pc EXCEPT ![s] = "count"]
    /\ UNCHANGED <<complaints, cases, caseUpdates, lock, txn>>
    /\ UNCHANGED <<evidence, files, ordering>>

\* Two requests page through the same store.
NextPaging ==
    \/ \E s \in Sessions : search_complaints_advanced_page(s)
    \/ \E s \in Sessions : count_complaints_advanced(s)
    \/ \E s \in Sessions : Return(s)

SpecPaging == InitPaging /\ [][NextPaging]_vars

\* The filters of a call without its limit and offset.
CountFilters(f) == [f EXCEPT !.limit = None, !.offset = None]

\* The offset a call asked for, as a number of rows to skip.
Skipped(f) == IF f.offset = None THEN 0 ELSE f.offset

\* The number of items from position skip on of a list of total items, at
\* most limit of them.
PageLength(total, limit, skip) ==
    IF total <= skip THEN 0
    ELSE IF total - skip < limit THEN total - skip ELSE limit

LawKeywords ==
    <<[words |-> {<<"m", "u", "r", "d", "e", "r">>, <<"k", "i", "l", "l">>, <<"d", "e", "a", "t", "h">>},
       law |-> "BNS Section 103 - Murder"],
      [words |-> {<<"t", "h", "e", "f", "t">>, <<"s", "t", "e", "a", "l">>, <<"r", "o", "b", "b", "e", "r", "y">>},
       law |-> "BNS Section 304 - Theft"],
      [words |-> {<<"a", "s", "s", "a", "u", "l", "t">>, <<"a", "t", "t", "a", "c", "k">>, <<"v", "i", "o", "l", "e", "n", "c", "e">>},
       law |-> "BNS Section 354 - Assault"],
      [words |-> {<<"f", "r", "a", "u", "d">>, <<"c", "h", "e", "a", "t">>, <<"s", "c", "a", "m">>},
       law |-> "BNS Section 420 - Fraud"],
      [words |-> {<<"t", "h", "r", "e", "a", "t">>, <<"i", "n", "t", "i", "m", "i", "d", "a", "t", "i", "o", "n">>, <<"b", "l", "a", "c", "k", "m", "a", "i", "l">>},
       law |-> "BNS Section 506 - Intimidation"]>>

\* Complaint texts a caller passes: with keywords of no, one and several
\* laws, in upper case, and two keywords of one law.
ComplaintTexts ==
    {<<>>,
     <<"p", "h", "o", "n", "e", " ", "s", "t", "o", "l", "e", "n">>,
     <<"h", "e", " ", "t", "h", "r", "e", "a", "t", "e", "n", "e", "d", " ", "t", "o", " ", "k", "i", "l", "l", " ", "m", "e">>,
     <<"S", "C", "A", "M", " ", "a", "n", "d", " ", "T", "h", "e", "f", "t">>,
     <<"m", "u", "r", "d", "e", "r", ",", " ", "a", " ", "d", "e", "a", "t", "h">>,
     <<"a", "t", "t", "a", "c", "k", "e", "d", " ", "i", "n", " ", "a", " ", "r", "o", "b", "b", "e", "r", "y">>}

\* Crime categories a caller passes with the text.
LawCategories ==
    {<<>>,
     <<"T", "h", "e", "f", "t">>,
     <<"O", "t", "h", "e", "r">>,
     <<"F", "R", "A", "U", "D">>}

\* The laws of the table from position i on whose keyword list has a word
\* in text, in table order (suggestions.append in each if).
RECURSIVE SuggestionsFrom(_, _)
SuggestionsFrom(text, i) ==
    IF i > Len(LawKeywords) THEN <<>>
    ELSE IF \E word \in LawKeywords[i].words : In(word, text)
         THEN <<LawKeywords[i].law>> \o SuggestionsFrom(text, i + 1)
         ELSE SuggestionsFrom(text, i + 1)

\* text_lower = complaint_text.lower(); category_lower = category.lower();
\* every if tests text_lower only, category_lower is not used.
get_law_suggestions(s) ==
    /\ pc[s] = "idle"
    /\ \E complaint_text \in ComplaintTexts, category \in LawCategories :
          LET text_lower == lower(complaint_text)
              category_lower == lower(category)
          IN  frame' = [frame EXCEPT ![s] =
                  [op |-> "get_law_suggestions", complaint_text |-> complaint_text,
                   category |-> category,
                   suggestions |-> SuggestionsFrom(text_lower, 1)]]
    /\ pc' = [pc EXCEPT ![s] = "returned"]
    /\ UNCHANGED <<complaints, cases, caseUpdates, lock, txn>>
    /\ UNCHANGED <<evidence, files, ordering>>

NextLaws == \E s \in Sessions : get_law_suggestions(s) \/ Return(s)

SpecLaws == Init /\ [][NextLaws]_vars

\* The law of table row i is triggered: one of its keywords is a part of
\* the text or of the category, whatever the case of the letters.
Triggered(i, text, category) ==
    \E word \in LawKeywords[i].words : Contains(text, word) \/ Contains(category, word)

\* C21: get_law_suggestions returns, in table order and each once, exactly
\* the laws one of whose keywords occurs, whatever the case, in the text or
\* in the category; the empty list when none occurs.
C21_LawSuggestions ==
    \A s \in Sessions :
        (pc[s] = "returned" /\ frame[s].op = "get_law_suggestions")
        => LET got == frame[s].suggestions
               hit == {i \in 1..Len(LawKeywords) :
                          Triggered(i, frame[s].complaint_text, frame[s].category)}
           IN  /\ Len(got) = Cardinality(hit)
               /\ \A a \in 1..Len(got) : \E i \in hit : got[a] = LawKeywords[i].law
               /\ \A a, b \in 1..Len(got) :
                     a < b => \E i, j \in hit : /\ i < j
                                               /\ got[a] = LawKeywords[i].law
                                               /\ got[b] = LawKeywords[j].law

\* ============================================================ case history
\* No session is inside a call.
Quiescent == \A s \in Sessions : pc[s] \in {"idle", "returned", "raised"}

\* C22: the statuses the CaseUpdates of one case record, read in insertion
\* order, never move backward in the transition graph: no CaseUpdate
\* records a status from which the status of an earlier CaseUpdate of the
\* same case can be reached.
C22_CaseUpdatesNeverBackward ==
    \A i, j \in 1..Len(caseUpdates) :
        (i < j /\ caseUpdates[i].case_id = caseUpdates[j].case_id)
        => ~Reachable(caseUpdates[j].status, caseUpdates[i].status)

\* C23: whenever no call is running, every Case of a complaint of the store
\* has the case_status that is the complaint's status.
C23_CaseStatusMirrorsComplaint ==
    Quiescent
    => \A k \in 1..Len(cases) :
          cases[k].complaint_id \in 1..Len(complaints)
          => cases[k].case_status = complaints[cases[k].complaint_id].status

\* C24: every Case refers to a complaint of the store.
C24_CaseHasComplaint ==
    \A k \in 1..Len(cases) : cases[k].complaint_id \in 1..Len(complaints)

\* C25: CaseUpdates are append-only: every step leaves the CaseUpdates it
\* found in place and unchanged (case, officer badge, status, notes); it
\* can only add rows after them.
C25_CaseUpdatesAppendOnly ==
    [][/\ Len(caseUpdates') >= Len(caseUpdates)
       /\ SubSeq(caseUpdates', 1, Len(caseUpdates)) = caseUpdates]_vars

\* C25 witness: a case has got its second CaseUpdate, from another officer
\* and back to Pending; the first, Resolved, is still there.
C25_Witness ==
    /\ Len(caseUpdates) = 2
    /\ caseUpdates[1].case_id = caseUpdates[2].case_id
    /\ caseUpdates[1].status = "Resolved"
    /\ caseUpdates[2].status = "Pending"
    /\ caseUpdates[1].officer_badge # caseUpdates[2].officer_badge

\* C30: the step with which update_complaint_status returns for a complaint
\* that had a Case leaves the Case the new CaseUpdate belongs to, a Case of
\* that complaint, with the user of the acting badge as police_officer_id
\* (NULL when no user has the badge), whoever was recorded before; the
\* CaseUpdate carries the badge as it was passed.
C30_CaseOfficerFollowsBadge ==
    [][\A s \in Sessions :
          (UcsCommits(s) /\ OnComplaint(s) /\ CasesOf(frame[s].complaint_id) # {})
          => LET u == caseUpdates'[Len(caseUpdates')]
             IN  /\ Len(caseUpdates') = Len(caseUpdates) + 1
                 /\ u.officer_badge = frame[s].officer_badge
                 /\ u.case_id \in CasesOf(frame[s].complaint_id)
                 /\ BadgeOwner(frame[s].officer_badge, cases'[u.case_id].police_officer_id)
                 /\ Len(cases') = Len(cases)]_vars

\* C30 witness: the Case register_case made for officer 1 has lost its
\* officer to a status update under the badge N/A, which its CaseUpdate
\* records.
C30_Witness ==
    /\ Len(cases) = 1
    /\ cases[1].pdf_path # NoPath
    /\ cases[1].police_officer_id = None
    /\ Len(caseUpdates) = 1
    /\ caseUpdates[1].officer_badge = "N/A"
    /\ caseUpdates[1].case_id = 1

\* ======================================================== complaint records
\* Bound: the evidence ids the Evidence table gives out are 1..MaxFiles.
MaxFiles == 2

\* SQL NULL of a text column of Complaints.
NullText == <<"NULL">>

\* uuid.uuid4().hex[:8] of save_uploaded_file: two uploads can draw the same.
UuidHex == {"1a2b3c4d", "9f8e7d6c"}

\* Path(filename).suffix: the name from its last dot on, '' when the name
\* has no dot after its first character.
Suffix(filename) ==
    LET dots == {i \in 2..Len(filename) : filename[i] = "."}
    IN  IF dots = {} THEN <<>>
        ELSE SubSeq(filename, CHOOSE i \in dots : \A j \in dots : j <= i, Len(filename))

\* The extensions of ALLOWED_EXTENSIONS, all types together.
ALLOWED_EXTENSIONS ==
    {<<".", "j", "p", "g">>, <<".", "j", "p", "e", "g">>, <<".", "p", "n", "g">>, <<".", "g", "i", "f">>, <<".", "b", "m", "p">>, <<".", "t", "i", "f", "f">>, <<".", "w", "e", "b", "p">>,
     <<".", "p", "d", "f">>, <<".", "d", "o", "c">>, <<".", "d", "o", "c", "x">>, <<".", "t", "x", "t">>, <<".", "r", "t", "f">>,
     <<".", "m", "p", "3">>, <<".", "w", "a", "v">>, <<".", "m", "4", "a">>, <<".", "o", "g", "g">>, <<".", "a", "a", "c">>,
     <<".", "m", "p", "4">>, <<".", "a", "v", "i">>, <<".", "m", "o", "v">>, <<".", "w", "m", "v">>, <<".", "m", "k", "v">>, <<".", "w", "e", "b", "m">>,
     <<".", "z", "i", "p">>, <<".", "r", "a", "r">>, <<".", "7", "z">>}

\* MAX_FILE_SIZE, in bytes.
MAX_FILE_SIZE == 10 * 1024 * 1024

\* is_allowed_file(filename)
is_allowed_file(filename) ==
    filename # <<>> /\ lower(Suffix(filename)) \in ALLOWED_EXTENSIONS

\* Files a user uploads: allowed ones (one with its extension in upper
\* case), one of a type that is not allowed, one that is too large.
Uploads ==
    {[name |-> <<"p", "h", "o", "t", "o", ".", "j", "p", "g">>, size |-> 2048],
     [name |-> <<"s", "c", "a", "n", ".", "P", "D", "F">>, size |-> 2048],
     [name |-> <<"r", "u", "n", ".", "e", "x", "e">>, size |-> 2048],
     [name |-> <<"c", "l", "i", "p", ".", "m", "p", "4">>, size |-> MAX_FILE_SIZE + 1]}

\* Names of the files whose records are added directly.
FileNames == {<<"p", "h", "o", "t", "o", ".", "j", "p", "g">>}

\* os.path.join(evidence_dir, f"complaint_{complaint_id}_{uuid8}{file_ext}")
FilePath(complaint_id, uuid8, file_name) ==
    [complaint_id |-> complaint_id, uuid8 |-> uuid8, file_ext |-> Suffix(file_name)]

\* INSERT INTO Evidence (complaint_id, file_name, file_path, ...): the row
\* gets the next evidence_id.
InsertEvidence(ev, complaint_id, file_name, file_path) ==
    [rows |-> ev.rows \cup {[evidence_id |-> ev.seq + 1, complaint_id |-> complaint_id,
                             file_name |-> file_name, file_path |-> file_path]},
     seq |-> ev.seq + 1]

\* DELETE FROM Evidence WHERE evidence_id = ?
DeleteEvidence(ev, evidence_id) ==
    [ev EXCEPT !.rows = {r \in @ : r.evidence_id # evidence_id}]

\* Arguments of add_complaint: a citizen's user id, title and description
\* of the complaint, and the severity (default 'Low').
AddComplaintArgs ==
    {[user_id |-> 2, title |-> <<"T", "h", "e", "f", "t">>,
      description |-> <<"p", "h", "o", "n", "e", " ", "s", "t", "o", "l", "e", "n">>, severity |-> sev] : sev \in {"Low", "High"}}

\* add_complaint(user_id, title, description, severity): INSERT INTO
\* Complaints (user_id, crime_type, description, severity_level); commit.
\* Every other column takes its default: reference_number and
\* severity_score NULL, status 'Pending', date_filed CURRENT_TIMESTAMP.
add_complaint(s) ==
    /\ pc[s] = "idle"
    /\ lock = "free"
    /\ Rows(Committed) < MaxRows
    /\ \E a \in AddComplaintArgs, now \in Now(Committed) :
          /\ complaints' = Append(complaints,
                [reference_number |-> NullText, user_id |-> a.user_id,
                 citizen_name |-> NullText, citizen_email |-> NullText,
                 crime_type |-> a.title, description |-> a.description,
                 location |-> NullText, severity_level |-> a.severity,
                 severity_score |-> None, status |-> "Pending", date_filed |-> now,
                 assigned_officer_id |-> None])
          /\ frame' = [frame EXCEPT ![s] = CallFrame("add_complaint", a)]
    /\ pc' = [pc EXCEPT ![s] = "returned"]
    /\ UNCHANGED <<cases, caseUpdates, lock, txn>>
    /\ UNCHANGED <<evidence, files, ordering>>

\* add_evidence(complaint_id, file_name, file_path, ...) for a file of a
\* complaint: INSERT INTO Evidence; commit; return c.lastrowid.
add_evidence(s) ==
    /\ pc[s] = "idle"
    /\ lock = "free"
    /\ evidence.seq < MaxFiles
    /\ \E complaint_id \in 1..Len(complaints), uuid8 \in UuidHex, file_name \in FileNames :
          LET file_path == FilePath(complaint_id, uuid8, file_name)
          IN  /\ evidence' = InsertEvidence(evidence, complaint_id, file_name, file_path)
              /\ frame' = [frame EXCEPT ![s] =
                     [CallFrame("add_evidence", file_path) EXCEPT !.result = evidence.seq + 1]]
    /\ pc' = [pc EXCEPT ![s] = "returned"]
    /\ UNCHANGED <<complaints, cases, caseUpdates, lock, txn, files, ordering>>

\* delete_evidence(evidence_id): DELETE FROM Evidence; commit; return True.
delete_evidence(s) ==
    /\ pc[s] = "idle"
    /\ lock = "free"
    /\ \E evidence_id \in 1..evidence.seq :
          /\ evidence' = DeleteEvidence(evidence, evidence_id)
          /\ frame' = [frame EXCEPT ![s] =
                 [CallFrame("delete_evidence", evidence_id) EXCEPT !.result = TRUE]]
    /\ pc' = [pc EXCEPT ![s] = "returned"]
    /\ UNCHANGED <<complaints, cases, caseUpdates, lock, txn, files, ordering>>

\* The session that makes the calls, one after the other; the calls of
\* another session would come between them and be no different.
Clerk == CHOOSE s \in Sessions : TRUE

\* Complaints are created with either method, officers change their
\* statuses and register cases.
NextCreate ==
    \/ SubmitInsert(Clerk)
    \/ SubmitCommit(Clerk)
    \/ add_complaint(Clerk)
    \/ UcsUpdateComplaint(Clerk)
    \/ UcsGetOrCreateCase(Clerk)
    \/ UcsInsertCaseUpdate(Clerk)
    \/ UcsCommit(Clerk)
    \/ RcInsertCase(Clerk)
    \/ RcCommit(Clerk)
    \/ mark_complaint_registered(Clerk)
    \/ Return(Clerk)

SpecCreate == Init /\ [][NextCreate]_vars

\* The store holds at most one complaint, as submit_complaint stored it.
InitRecords ==
    /\ complaints \in {rows \in Stores(1) : StoreOK(rows) /\ \A i \in 1..Len(rows) : rows[i].status = "Pending"}
    /\ cases = <<>>
    /\ caseUpdates = <<>>
    /\ lock = "free"
    /\ txn = NoTxn
    /\ pc = [s \in Sessions |-> "idle"]
    /\ frame = [s \in Sessions |-> IdleFrame]
    /\ evidence = NoEvidence
    /\ files = {}
    /\ ordering = <<>>

\* Officers change the status of the complaint and register cases,
\* evidence records are added and deleted.
NextRecords ==
    \/ UcsUpdateComplaint(Clerk)
    \/ UcsGetOrCreateCase(Clerk)
    \/ UcsInsertCaseUpdate(Clerk)
    \/ UcsCommit(Clerk)
    \/ RcInsertCase(Clerk)
    \/ RcCommit(Clerk)
    \/ mark_complaint_registered(Clerk)
    \/ add_evidence(Clerk)
    \/ delete_evidence(Clerk)
    \/ Return(Clerk)

SpecRecords == InitRecords /\ [][NextRecords]_vars

\* C26: every complaint carries a reference number from the step that
\* created it, whichever method created it, and no later step changes it.
C26_ReferenceAssignedAtCreation ==
    [][\A i \in 1..Len(complaints') :
          /\ complaints'[i].reference_number # NullText
          /\ i <= Len(complaints)
                => complaints'[i].reference_number = complaints[i].reference_number]_vars

\* C29: no step changes the severity level or the severity score of a
\* complaint that is in the store.
C29_SeverityFixedAfterCreation ==
    [][/\ Len(complaints') >= Len(complaints)
       /\ \A i \in 1..Len(complaints) :
             /\ complaints'[i].severity_level = complaints[i].severity_level
             /\ complaints'[i].severity_score = complaints[i].severity_score]_vars

\* C29 witness: the complaint classified High with score 10 has got a Case
\* through register_case, has been moved on by a status update, and an
\* evidence record of it was added and deleted.
C29_Witness ==
    /\ Len(complaints) = 1
    /\ complaints[1].severity_level = "High"
    /\ complaints[1].severity_score = 10
    /\ complaints[1].status = "Resolved"
    /\ \E k \in 1..Len(cases) : cases[k].pdf_path # NoPath /\ cases[k].complaint_id = 1
    /\ Len(caseUpdates) = 1
    /\ evidence.seq > 0
    /\ evidence.rows = {}

\* ========================================================= evidence uploads
\* save_uploaded_file refuses the file: no name, a type that is not
\* allowed, or too large.
Refused(file) == ~is_allowed_file(file.name) \/ file.size > MAX_FILE_SIZE

\* Locals of an upload: the complaint, the files of the form, the index of
\* the file at hand, its path once it is saved, the evidence ids obtained.
UploadFrame(op, complaint_id, uploaded_files) ==
    [op |-> op, complaint_id |-> complaint_id, uploaded_files |-> uploaded_files,
     i |-> 1, file_path |-> None, evidence_uploaded |-> 0]

\* The files chosen in the complaint form (accept_multiple_files).
UploadedFiles ==
    {<<>>,
     <<[name |-> <<"p", "h", "o", "t", "o", ".", "j", "p", "g">>, size |-> 2048]>>,
     <<[name |-> <<"r", "u", "n", ".", "e", "x", "e">>, size |-> 2048],
       [name |-> <<"p", "h", "o", "t", "o", ".", "j", "p", "g">>, size |-> 2048]>>,
     <<[name |-> <<"p", "h", "o", "t", "o", ".", "j", "p", "g">>, size |-> 2048],
       [name |-> <<"s", "c", "a", "n", ".", "P", "D", "F">>, size |-> 2048]>>}

\* display_evidence_upload_form(complaint_id, user_email) after "Upload
\* Evidence", up to save_uploaded_file: a refused file ends the request
\* with an error; else the file is written under a new name.
UploadSave(s) ==
    /\ pc[s] = "idle"
    /\ \E complaint_id \in 1..Len(complaints), file \in Uploads, uuid8 \in UuidHex :
          LET fr == UploadFrame("display_evidence_upload_form", complaint_id, <<file>>)
              file_path == FilePath(complaint_id, uuid8, file.name)
          IN  IF Refused(file)
              THEN /\ frame' = [frame EXCEPT ![s] = fr]
                   /\ pc' = [pc EXCEPT ![s] = "returned"]
                   /\ UNCHANGED files
              ELSE /\ Cardinality(files \cup {file_path}) <= MaxFiles
                   /\ files' = files \cup {file_path}
                   /\ frame' = [frame EXCEPT ![s] = [fr EXCEPT !.file_path = file_path]]
                   /\ pc' = [pc EXCEPT ![s] = "upl_add"]
    /\ UNCHANGED <<complaints, cases, caseUpdates, lock, txn, evidence, ordering>>

\* evidence_id = db.add_evidence(...) returns the new id: the form reports
\* success and returns True.
UploadAddEvidence(s) ==
    /\ pc[s] = "upl_add"
    /\ lock = "free"
    /\ evidence.seq < MaxFiles
    /\ evidence' = InsertEvidence(evidence, frame[s].complaint_id,
                                  frame[s].uploaded_files[1].name, frame[s].file_path)
    /\ frame' = [frame EXCEPT ![s].evidence_uploaded = 1]
    /\ pc' = [pc EXCEPT ![s] = "returned"]
    /\ UNCHANGED <<complaints, cases, caseUpdates, lock, txn, files, ordering>>

\* db.add_evidence(...) meets sqlite3.Error (the database is locked, the
\* disk is full): it logs the error and returns None, nothing is stored.
UploadAddEvidenceFails(s) ==
    /\ pc[s] = "upl_add"
    /\ pc' = [pc EXCEPT ![s] = "upl_cleanup"]
    /\ UNCHANGED <<complaints, cases, caseUpdates, lock, txn, frame, evidence, files, ordering>>

\* else: delete_evidence_file(file_path): os.remove when the file exists;
\* the form reports the failure and returns False.
UploadCleanup(s) ==
    /\ pc[s] = "upl_cleanup"
    /\ files' = files \ {frame[s].file_path}
    /\ pc' = [pc EXCEPT ![s] = "returned"]
    /\ UNCHANGED <<complaints, cases, caseUpdates, lock, txn, frame, evidence, ordering>>

\* What the citizen enters into the complaint form beside the files.
FormData == {data \in ComplaintData : data.severity_level = "High"}

\* The complaint form after "Submit Complaint", up to the loop over the
\* uploaded files: db.submit_complaint(complaint_data) stores the complaint
\* under the next reference number, get_complaint_by_reference gives its
\* complaint_id.
FormSubmit(s) ==
    /\ pc[s] = "idle"
    /\ lock = "free"
    /\ Len(complaints) < MaxStore
    /\ \E data \in FormData, now \in Now(Committed), uploaded_files \in UploadedFiles :
          LET reference_number == RefOrder[Len(complaints) + 1]
              db == [Committed EXCEPT !.complaints =
                        Append(@, ComplaintRow(reference_number, data, now))]
              complaint_id == SelectByReference(db, reference_number)
          IN  /\ complaints' = db.complaints
              /\ frame' = [frame EXCEPT ![s] =
                              UploadFrame("submit_complaint", complaint_id, uploaded_files)]
    /\ pc' = [pc EXCEPT ![s] = "form_file"]
    /\ UNCHANGED <<cases, caseUpdates, lock, txn, evidence, files, ordering>>

\* for file in uploaded_files: save_uploaded_file(file, complaint_id): a
\* refused file gets a warning and the loop goes on; else the file is
\* written under a new name.
FormSaveFile(s) ==
    /\ pc[s] = "form_file"
    /\ frame[s].i <= Len(frame[s].uploaded_files)
    /\ LET file == frame[s].uploaded_files[frame[s].i]
       IN  IF Refused(file)
           THEN /\ frame' = [frame EXCEPT ![s].i = @ + 1]
                /\ UNCHANGED <<pc, files>>
           ELSE \E uuid8 \in UuidHex :
                   LET file_path == FilePath(frame[s].complaint_id, uuid8, file.name)
                   IN  /\ Cardinality(files \cup {file_path}) <= MaxFiles
                       /\ files' = files \cup {file_path}
                       /\ frame' = [frame EXCEPT ![s].file_path = file_path]
                       /\ pc' = [pc EXCEPT ![s] = "form_add"]
    /\ UNCHANGED <<complaints, cases, caseUpdates, lock, txn, evidence, ordering>>

\* evidence_id = db.add_evidence(...) returns the new id: evidence_uploaded
\* += 1 and the loop goes on.
FormAddEvidence(s) ==
    /\ pc[s] = "form_add"
    /\ lock = "free"
    /\ evidence.seq < MaxFiles
    /\ evidence' = InsertEvidence(evidence, frame[s].complaint_id,
                                  frame[s].uploaded_files[frame[s].i].name,
                                  frame[s].file_path)
    /\ frame' = [frame EXCEPT ![s].evidence_uploaded = @ + 1, ![s].i = @ + 1]
    /\ pc' = [pc EXCEPT ![s] = "form_file"]
    /\ UNCHANGED <<complaints, cases, caseUpdates, lock, txn, files, ordering>>

\* db.add_evidence(...) meets sqlite3.Error and returns None: else:
\* st.warning(...), and the loop goes on.
FormAddEvidenceFails(s) ==
    /\ pc[s] = "form_add"
    /\ frame' = [frame EXCEPT ![s].i = @ + 1]
    /\ pc' = [pc EXCEPT ![s] = "form_file"]
    /\ UNCHANGED <<complaints, cases, caseUpdates, lock, txn, evidence, files, ordering>>

\* The loop is over: the form shows the reference number.
FormDone(s) ==
    /\ pc[s] = "form_file"
    /\ frame[s].i > Len(frame[s].uploaded_files)
    /\ pc' = [pc EXCEPT ![s] = "returned"]
    /\ UNCHANGED <<complaints, cases, caseUpdates, lock, txn, frame, evidence, files, ordering>>

\* display_evidence_content, button Delete: delete_evidence_file(path)
\* removes the file when it exists; when it does not, the request ends with
\* an error and the record stays.
DeleteFile(s) ==
    /\ pc[s] = "idle"
    /\ \E row \in evidence.rows :
          /\ frame' = [frame EXCEPT ![s] =
                [UploadFrame("display_evidence_content", row.complaint_id, <<>>)
                    EXCEPT !.file_path = row.file_path, !.i = row.evidence_id]]
          /\ IF row.file_path \in files
             THEN /\ files' = files \ {row.file_path}
                  /\ pc' = [pc EXCEPT ![s] = "del_record"]
             ELSE /\ pc' = [pc EXCEPT ![s] = "returned"]
                  /\ UNCHANGED files
    /\ UNCHANGED <<complaints, cases, caseUpdates, lock, txn, evidence, ordering>>

\* db.delete_evidence(evidence['evidence_id']) returns True.
DeleteRecord(s) ==
    /\ pc[s] = "del_record"
    /\ lock = "free"
    /\ evidence' = DeleteEvidence(evidence, frame[s].i)
    /\ pc' = [pc EXCEPT ![s] = "returned"]
    /\ UNCHANGED <<complaints, cases, caseUpdates, lock, txn, frame, files, ordering>>

\* db.delete_evidence meets sqlite3.Error and returns False: the record
\* stays.
DeleteRecordFails(s) ==
    /\ pc[s] = "del_record"
    /\ pc' = [pc EXCEPT ![s] = "returned"]
    /\ UNCHANGED <<complaints, cases, caseUpdates, lock, txn, frame, evidence, files, ordering>>

\* Citizens submit complaints with files, users upload and delete
\* evidence; the requests are made one after the other.
NextEvidence ==
    \/ FormSubmit(Clerk)
    \/ FormSaveFile(Clerk)
    \/ FormAddEvidence(Clerk)
    \/ FormAddEvidenceFails(Clerk)
    \/ FormDone(Clerk)
    \/ UploadSave(Clerk)
    \/ UploadAddEvidence(Clerk)
    \/ UploadAddEvidenceFails(Clerk)
    \/ UploadCleanup(Clerk)
    \/ DeleteFile(Clerk)
    \/ DeleteRecord(Clerk)
    \/ DeleteRecordFails(Clerk)
    \/ Return(Clerk)

SpecEvidence == Init /\ [][NextEvidence]_vars

\* The paths the Evidence records name.
RecordedPaths == {row.file_path : row \in evidence.rows}

\* C27: in either upload flow, when add_evidence has failed for a file that
\* was written, the file is gone when the request is over: with no request
\* running, every file of the evidence directory has an Evidence record.
C27_NoOrphanedFile ==
    Quiescent => files \subseteq RecordedPaths

====
